---- MODULE Spec2Model ----
(***************************************************************************)
(* A model of the gatekeeper card tooling: key derivation (keys), signing  *)
(* (sig), the DESFire provisioning and authentication protocols (device)   *)
(* and the gkadm issue / verify tasks that drive them.                     *)
(*                                                                         *)
(* Byte strings are sequences of naturals.  Literal bytes are 0..255;      *)
(* the bytes of an ECDSA signature component are symbolic and are coded    *)
(* as naturals >= SymBase so that a card file can hold both kinds.         *)
(* HMAC-SHA512 and ECDSA are idealised: a MAC is determined by (and        *)
(* determines) its key and its input stream, a signature verifies only     *)
(* under the key pair and digest that produced it.                         *)
(***************************************************************************)
EXTENDS Integers, Sequences, FiniteSets, TLC

(***************************************************************************)
(* Bounds of the model                                                     *)
(***************************************************************************)
\* longest realm list of a request
MaxRealms == 2
\* number of operations (tasks or direct protocol runs) started on one card
MaxPasses == 2
\* number of distinct signing nonces
MaxNonce == 2
\* number of calls of DeriveDESFireKey made outside the operations
MaxDerived == 3
\* number of tasks created while the program runs
MaxTasks == 2
\* number of lines a Run writes to its log
MaxLines == 3
\* number of polls of the reader in one Connect
MaxPolls == 3

(***************************************************************************)
(* State                                                                   *)
(***************************************************************************)
VARIABLES
  word,       \* bytes of a machine word in the build (4 or 8)
  card,       \* the card on the reader, with the session's selection
  passes,     \* operations started so far
  mode,       \* the operation running: idle, issueTask, verifyTask, devIssue, devAuth, tagAuth
  pc,         \* its position
  req,        \* the request of the task
  systemSecret, \* the decoded system secret
  realms,     \* the decoded realms
  idx,        \* the index of the realm a loop is at
  uid,        \* the UID read from the card
  sig,        \* the signature Issue made for the current realm
  tagUUID,    \* the identifier Authenticate parsed
  rbuf,       \* the R bytes Authenticate read
  oplog,      \* the calls made on the card session in this operation
  callStart,  \* Len(oplog) when the running protocol function was entered
  ret,        \* what Issue / Authenticate returned: none, nil or err: ...
  failStep,   \* the step of the protocol function that failed, "" if none
  log,        \* the task's log
  output,     \* the result the issue task sent
  devOpen,    \* whether the NFC device is open
  closeCalls, \* calls of Close in this operation
  derived,    \* the calls of DeriveDESFireKey made outside the operations, in order
  taskStore,  \* the tasks created, by id, each with the position of its Run
  sigCall,    \* the last call of a function of package sig made outside the operations
  creating,   \* per task: the position of the CreateIssueTask/CreateVerifyTask handler
  reader,     \* the GetTask, GetTasks or GetTaskLog handler in flight
  outputs     \* per task: the output channel of its chanWriter and what Run still logs

(***************************************************************************)
(* Program constants (device package)                                      *)
(***************************************************************************)
\* 0xff77f0
baseAppId == 16742384
masterAppId == 0
initialApplicationSettings == 9
\* 0xE0
finalApplicationSettings == 224
initialPICCSettings == 9
finalPICCSettings == 8
\* 0x0000
initialUUIDFileSettings == 0
\* 0x1FFF
finalUUIDFileSettings == 8191
\* 0x2F33
finalAuthenticityFileSettings == 12083
mangledUUIDLength == 32
authenticityRLength == 32
authenticitySLength == 32
authenticityFileSize == authenticityRLength + authenticitySLength
\* [16]byte of a DESFire AES key
aesKeyLength == 16
\* freefare.CryptoAES
CryptoAES == 128
\* freefare communication modes
Plain == 0
Enciphered == 3

(***************************************************************************)
(* Byte strings                                                            *)
(***************************************************************************)
Zeros(n) == [i \in 1..n |-> 0]

Min(a, b) == IF a < b THEN a ELSE b

\* '-'
Dash == 45

\* one lower-case hexadecimal digit, as encoding/hex writes it
HexDigit(n) == IF n < 10 THEN 48 + n ELSE 87 + n

\* hex.Encode of a byte string
HexOf(bs) ==
  [i \in 1..(2 * Len(bs)) |->
     IF i % 2 = 1 THEN HexDigit(bs[(i + 1) \div 2] \div 16)
                  ELSE HexDigit(bs[i \div 2] % 16)]

\* uuid.UUID.String: 8-4-4-4-12 lower-case hexadecimal digits
UUIDString(u) ==
  HexOf(SubSeq(u, 1, 4)) \o <<Dash>> \o HexOf(SubSeq(u, 5, 6)) \o <<Dash>>
    \o HexOf(SubSeq(u, 7, 8)) \o <<Dash>> \o HexOf(SubSeq(u, 9, 10))
    \o <<Dash>> \o HexOf(SubSeq(u, 11, 16))

\* strings.Replace(s, "-", "", -1)
StripDashes(s) == SelectSeq(s, LAMBDA c : c # Dash)

\* the value of a hexadecimal digit (uuid's xvalues table), 255 when invalid
XValue(c) ==
  IF c >= 48 /\ c <= 57 THEN c - 48
  ELSE IF c >= 97 /\ c <= 102 THEN c - 87
  ELSE IF c >= 65 /\ c <= 70 THEN c - 55
  ELSE 255

NilUUID == Zeros(16)

\* a variant of ParseBytes: the two digits of a byte taken low digit first
ParseBytesLowFirst(b) ==
  IF Len(b) # 32 THEN [ok |-> FALSE, uuid |-> Zeros(16)]
  ELSE IF \E i \in 1..32 : b[i] >= 256 \/ XValue(b[i]) = 255
       THEN [ok |-> FALSE, uuid |-> Zeros(16)]
       ELSE [ok |-> TRUE,
             uuid |-> [i \in 1..16 |->
                         XValue(b[2 * i]) * 16 + XValue(b[2 * i - 1])]]

\* uuid.ParseBytes on the 32-byte buffer Authenticate hands it: the raw
\* hexadecimal form; every other length the buffer cannot have is an error
ParseBytes(b) ==
  IF Len(b) # 32 THEN [ok |-> FALSE, uuid |-> NilUUID]
  ELSE IF \E i \in 1..32 : b[i] >= 256 \/ XValue(b[i]) = 255
       THEN [ok |-> FALSE, uuid |-> NilUUID]
       ELSE [ok |-> TRUE,
             uuid |-> [i \in 1..16 |->
                         XValue(b[2 * i - 1]) * 16 + XValue(b[2 * i])]]

(***************************************************************************)
(* keys: GenDESFireKey, DeriveDESFireKey                                   *)
(***************************************************************************)
NoKey == [kind |-> "none", bytes |-> <<>>, secret |-> <<>>, msg |-> <<>>]

\* copy(keyArr[:], key[:]) into a zeroed [16]byte
GenDESFireKey(key) ==
  [kind |-> "aes",
   bytes |-> [i \in 1..aesKeyLength |-> IF i <= Len(key) THEN key[i] ELSE 0],
   secret |-> <<>>, msg |-> <<>>]

\* freefare.NewDESFireAid: the three low bytes of the id, low byte first
NewDESFireAid(aid) ==
  <<aid % 256, (aid \div 256) % 256, (aid \div 65536) % 256>>

RECURSIVE StripTrailingZeros(_)
StripTrailingZeros(s) ==
  IF Len(s) > 0 /\ s[Len(s)] = 0
  THEN StripTrailingZeros(SubSeq(s, 1, Len(s) - 1))
  ELSE s

\* hmac.New: the key is zero-padded to the hash's block size, so two
\* secrets that differ only in trailing zero bytes give the same MAC
HmacKey(secret) == StripTrailingZeros(secret)

\* a variant of MacWrite: a MAC whose input keeps the boundaries of the
\* writes, each segment going in behind its length
MacWriteFramed(stream, p) == stream \o <<Len(p)>> \o p

\* hash.Hash.Write: appends to the stream the MAC is computed over
MacWrite(stream, p) == stream \o p

\* variants of DeriveDESFireKey: one whose MAC is shared between calls and
\* still holds the stream of the call before, and one that does not write
\* the key number
DeriveWithSharedMac(secret, appId, keyNum, data) ==
  [kind |-> "mac",
   bytes |-> <<>>,
   secret |-> HmacKey(secret),
   msg |-> MacWrite(MacWrite(MacWrite(
             IF derived = <<>> THEN <<>> ELSE derived[Len(derived)].key.msg,
             <<appId[1], appId[2], appId[3]>>), <<keyNum % 256>>), data)]
DeriveWithoutKeyNum(secret, appId, keyNum, data) ==
  [kind |-> "mac",
   bytes |-> <<>>,
   secret |-> HmacKey(secret),
   msg |-> MacWrite(MacWrite(<<>>, <<appId[1], appId[2], appId[3]>>), data)]

\* DeriveDESFireKey: three writes, mac.Sum, GenDESFireKey of the sum.  The
\* first 16 bytes of the 64-byte sum are kept symbolically (kind "mac").
DeriveDESFireKey(secret, appId, keyNum, data) ==
  [kind |-> "mac",
   bytes |-> <<>>,
   secret |-> HmacKey(secret),
   msg |-> MacWrite(MacWrite(MacWrite(<<>>, <<appId[1], appId[2], appId[3]>>),
                             <<keyNum % 256>>), data)]

defaultKey == Zeros(aesKeyLength)
defaultDESFireKey == GenDESFireKey(defaultKey)

(***************************************************************************)
(* sig: Sign, Verify (ECDSA P-384 over SHA-512), idealised                 *)
(***************************************************************************)
DigMod == 32749
SymBase == 256
\* longest serialization of a P-384 signature component, in bytes
CurveBytes == 48

RECURSIVE PolyHash(_, _)
PolyHash(s, h) ==
  IF s = <<>> THEN h ELSE PolyHash(Tail(s), (h * 31 + Head(s)) % DigMod)

\* ecdsaHashFunction: a digest of the message, collision-free on the
\* messages of the model
Sha512(data) == PolyHash(data, 7)

ZeroInt == [key |-> 0, dig |-> 0, nonce |-> 0, part |-> 0]
\* an integer that is no component of any signature of the model
OtherInt == [key |-> 0, dig |-> 0, nonce |-> 0, part |-> 3]

\* the byte length of the components a nonce leads to: a component is a
\* number in 1..n-1, so its big-endian form has at most CurveBytes bytes
\* and fewer when the number is small
SigLen(nonce) ==
  IF nonce = 1 THEN CurveBytes
  ELSE IF nonce = 2 THEN 32
  ELSE CurveBytes - 1

\* sig.Sign with the nonce rand.Reader supplied
Sign(privateKey, data, nonce) ==
  [r |-> [key |-> privateKey, dig |-> Sha512(data), nonce |-> nonce, part |-> 1],
   s |-> [key |-> privateKey, dig |-> Sha512(data), nonce |-> nonce, part |-> 2]]

\* the other S of a signature: the group order minus S
NegS(v) ==
  IF v.part = 2 THEN [v EXCEPT !.part = 4]
  ELSE IF v.part = 4 THEN [v EXCEPT !.part = 2]
  ELSE v

\* a variant of Verify: one that does not look at the message
VerifyAnyMessage(publicKey, data, r, s) ==
  /\ r.part = 1 /\ s.part \in {2, 4}
  /\ r.key = publicKey /\ s.key = publicKey
  /\ r.dig = s.dig
  /\ r.nonce = s.nonce

\* sig.Verify: ecdsa.Verify of the digest.  It takes S and the group order
\* minus S alike, as ECDSA does.
Verify(publicKey, data, r, s) ==
  /\ r.part = 1 /\ s.part \in {2, 4}
  /\ r.key = publicKey /\ s.key = publicKey
  /\ r.dig = Sha512(data) /\ s.dig = Sha512(data)
  /\ r.nonce = s.nonce

IntCode(v) == ((v.key * DigMod + v.dig) * (MaxNonce + 2) + v.nonce) * 5 + v.part

IntOfCode(c) ==
  [key |-> (c \div (5 * (MaxNonce + 2))) \div DigMod,
   dig |-> (c \div (5 * (MaxNonce + 2))) % DigMod,
   nonce |-> (c \div 5) % (MaxNonce + 2),
   part |-> c % 5]

\* big.Int.Bytes: big-endian, no leading zero byte, empty for zero
BigBytes(v) ==
  IF v.part \notin {1, 2, 4} THEN <<>>
  ELSE [j \in 1..SigLen(v.nonce) |-> SymBase + IntCode(v) * 64 + j]

RECURSIVE StripLeadingZeros(_)
StripLeadingZeros(s) ==
  IF Len(s) > 0 /\ s[1] = 0 THEN StripLeadingZeros(Tail(s)) ELSE s

\* big.Int.SetBytes: the integer a big-endian byte string denotes
SetBytes(b) ==
  LET t == StripLeadingZeros(b) IN
  IF t = <<>> THEN ZeroInt
  ELSE IF t[1] < SymBase THEN OtherInt
  ELSE LET c == (t[1] - SymBase) \div 64
           v == IntOfCode(c)
       IN IF /\ v.part \in {1, 2, 4}
             /\ Len(t) = SigLen(v.nonce)
             /\ \A j \in 1..Len(t) : t[j] = SymBase + c * 64 + j
          THEN v
          ELSE OtherInt

(***************************************************************************)
(* sig: GenerateKeyPair and the PEM encoding of keys (Encode, Decode)      *)
(***************************************************************************)
\* A key is a number, 0 is nil.  A DER body is what x509 can tell of it:
\* its form (sec1 for an EC private key, pkix for a public key), the
\* algorithm of the key and the key.  A PEM text has a block or none, and a
\* block has a type tag and a body.
NilKey == 0
KeyIds == {1, 2}
NoDer == [form |-> "none", alg |-> "", key |-> NilKey]
NoPem == [block |-> FALSE, Type |-> "", Bytes |-> NoDer]

\* GenerateKeyPair with the randomness rand.Reader supplied: the public key
\* is privateKey.Public()
GenerateKeyPair(k) == [priv |-> k, pub |-> k]

MarshalECPrivateKey(privateKey) ==
  [form |-> "sec1", alg |-> "ec", key |-> privateKey]
MarshalPKIXPublicKey(publicKey) ==
  [form |-> "pkix", alg |-> "ec", key |-> publicKey]

EncodePrivateKey(privateKey) ==
  [block |-> TRUE, Type |-> "EC PRIVATE KEY",
   Bytes |-> MarshalECPrivateKey(privateKey)]
EncodePublicKey(publicKey) ==
  [block |-> TRUE, Type |-> "PUBLIC KEY",
   Bytes |-> MarshalPKIXPublicKey(publicKey)]
Encode(privateKey, publicKey) ==
  [priv |-> EncodePrivateKey(privateKey), pub |-> EncodePublicKey(publicKey),
   err |-> ""]

ParseECPrivateKey(der) ==
  IF der.form = "sec1" /\ der.alg = "ec"
  THEN [err |-> "", key |-> der.key]
  ELSE [err |-> "x509: failed to parse EC private key", key |-> NilKey]

\* x509.ParsePKIXPublicKey returns an interface value; dyn is its dynamic
\* type, a pointer type for every elliptic-curve and RSA key
ParsePKIXPublicKey(der) ==
  IF der.form = "pkix"
  THEN [err |-> "",
        dyn |-> IF der.alg = "ec" THEN "*ecdsa.PublicKey" ELSE "*rsa.PublicKey",
        key |-> der.key]
  ELSE [err |-> "x509: failed to parse public key", dyn |-> "", key |-> NilKey]

DecodePrivateKey(pemEncoded) ==
  IF ~pemEncoded.block \/ pemEncoded.Type # "EC PRIVATE KEY"
  THEN [err |-> "failed to decode PEM block containing private key",
        key |-> NilKey]
  ELSE ParseECPrivateKey(pemEncoded.Bytes)

\* a variant of DecodePublicKey: one that returns whatever key the block
\* holds
DecodePublicKeyUntyped(pemEncoded) ==
  IF ~pemEncoded.block \/ pemEncoded.Type # "PUBLIC KEY"
  THEN [err |-> "failed to decode PEM block containing public key",
        key |-> NilKey]
  ELSE [err |-> ParsePKIXPublicKey(pemEncoded.Bytes).err,
        key |-> ParsePKIXPublicKey(pemEncoded.Bytes).key]

\* DecodePublicKey: the assertion publicKey.(ecdsa.PublicKey) names the
\* value type, which is the dynamic type of nothing ParsePKIXPublicKey
\* returns
DecodePublicKey(pemEncoded) ==
  IF ~pemEncoded.block \/ pemEncoded.Type # "PUBLIC KEY"
  THEN [err |-> "failed to decode PEM block containing public key",
        key |-> NilKey]
  ELSE LET parsed == ParsePKIXPublicKey(pemEncoded.Bytes) IN
       IF parsed.err # "" THEN [err |-> parsed.err, key |-> NilKey]
       ELSE IF parsed.dyn # "ecdsa.PublicKey"
       THEN [err |-> "failed to parse PKIX block containing ECDSA public key",
             key |-> NilKey]
       ELSE [err |-> "", key |-> parsed.key]

\* Decode: the private key first, then the public key
Decode(privateKey, publicKey) ==
  LET decodedPrivateKey == DecodePrivateKey(privateKey)
      decodedPublicKey == DecodePublicKey(publicKey)
  IN IF decodedPrivateKey.err # ""
     THEN [err |-> decodedPrivateKey.err, priv |-> NilKey, pub |-> NilKey]
     ELSE IF decodedPublicKey.err # ""
     THEN [err |-> decodedPublicKey.err, priv |-> NilKey, pub |-> NilKey]
     ELSE [err |-> "", priv |-> decodedPrivateKey.key,
           pub |-> decodedPublicKey.key]

(***************************************************************************)
(* The DESFire card behind freefare.DESFireTag (the CardSession)           *)
(***************************************************************************)
NoFile == [exists |-> FALSE, comm |-> 0, acl |-> 0, data |-> <<>>]
NoApp ==
  [exists |-> FALSE, settings |-> 0,
   keys |-> <<NoKey, NoKey, NoKey, NoKey>>,
   files |-> <<NoFile, NoFile>>]

\* slots whose applications the model's cards can hold
Slots == {3, 15}
AppIds == {baseAppId + s : s \in Slots}

\* one operation of the card session
MkOp(name, num, aid, key, old, val, off, data, size) ==
  [name |-> name, num |-> num, aid |-> aid, key |-> key, old |-> old,
   val |-> val, off |-> off, data |-> data, size |-> size]

OpCardUID == MkOp("CardUID", 0, 0, NoKey, NoKey, 0, 0, <<>>, 0)
OpSelectApplication(aid) ==
  MkOp("SelectApplication", 0, aid, NoKey, NoKey, 0, 0, <<>>, 0)
OpAuthenticate(keyNo, key) ==
  MkOp("Authenticate", keyNo, 0, key, NoKey, 0, 0, <<>>, 0)
OpCreateApplication(aid, settings, keyNo) ==
  MkOp("CreateApplication", keyNo, aid, NoKey, NoKey, settings, 0, <<>>, 0)
OpChangeKey(keyNo, new, old) ==
  MkOp("ChangeKey", keyNo, 0, new, old, 0, 0, <<>>, 0)
OpChangeKeySettings(settings) ==
  MkOp("ChangeKeySettings", 0, 0, NoKey, NoKey, settings, 0, <<>>, 0)
OpCreateDataFile(fileNo, comm, acl, size) ==
  MkOp("CreateDataFile", fileNo, 0, NoKey, NoKey, acl, comm, <<>>, size)
OpChangeFileSettings(fileNo, comm, acl) ==
  MkOp("ChangeFileSettings", fileNo, 0, NoKey, NoKey, acl, comm, <<>>, 0)
OpWriteData(fileNo, off, data) ==
  MkOp("WriteData", fileNo, 0, NoKey, NoKey, 0, off, data, 0)
OpReadData(fileNo, off, size) ==
  MkOp("ReadData", fileNo, 0, NoKey, NoKey, 0, off, <<>>, size)
OpSetConfiguration ==
  MkOp("SetConfiguration", 0, 0, NoKey, NoKey, 1, 0, <<>>, 0)

\* the four access-rights nibbles of a file: read, write, read&write, change
AclRead(acl) == (acl \div 4096) % 16
AclWrite(acl) == (acl \div 256) % 16
AclReadWrite(acl) == (acl \div 16) % 16
AclChange(acl) == acl % 16
\* 0xE is free access, 0xF is never, otherwise the key that must be authenticated
Allowed(nibble, auth) == nibble = 14 \/ (nibble < 14 /\ nibble = auth)

Bit(val, k) == (val \div k) % 2 = 1

CurSettings(c) ==
  IF c.sel = masterAppId THEN c.piccSettings ELSE c.apps[c.sel].settings
CurKeys(c) ==
  IF c.sel = masterAppId THEN <<c.piccKey>> ELSE c.apps[c.sel].keys
FileOf(c, num) ==
  IF c.sel # masterAppId /\ num \in 1..2 THEN c.apps[c.sel].files[num] ELSE NoFile

\* whether the card, in state c, accepts the operation
CardAccepts(c, op) ==
  CASE op.name = "CardUID" -> TRUE
    [] op.name = "SelectApplication" ->
         op.aid = masterAppId \/ (op.aid \in AppIds /\ c.apps[op.aid].exists)
    [] op.name = "Authenticate" ->
         op.num + 1 <= Len(CurKeys(c)) /\ CurKeys(c)[op.num + 1] = op.key
    [] op.name = "CreateApplication" ->
         /\ c.sel = masterAppId
         /\ c.auth = 0 \/ Bit(c.piccSettings, 4)
         /\ op.aid \in AppIds
         /\ ~c.apps[op.aid].exists
    [] op.name = "ChangeKey" ->
         /\ op.num + 1 <= Len(CurKeys(c))
         /\ IF op.num = 0
            THEN c.auth = 0 /\ Bit(CurSettings(c), 1)
            ELSE LET right == CurSettings(c) \div 16 IN
                 \/ right < 14 /\ c.auth = right
                 \/ right = 14 /\ c.auth = op.num
         /\ op.num # c.auth => op.old = CurKeys(c)[op.num + 1]
    [] op.name = "ChangeKeySettings" ->
         c.auth = 0 /\ Bit(CurSettings(c), 8)
    [] op.name = "CreateDataFile" ->
         /\ c.sel # masterAppId
         /\ c.auth = 0 \/ Bit(CurSettings(c), 4)
         /\ op.num \in 1..2
         /\ ~FileOf(c, op.num).exists
    [] op.name = "ChangeFileSettings" ->
         /\ FileOf(c, op.num).exists
         /\ Allowed(AclChange(FileOf(c, op.num).acl), c.auth)
    [] op.name = "WriteData" ->
         /\ FileOf(c, op.num).exists
         /\ \/ Allowed(AclWrite(FileOf(c, op.num).acl), c.auth)
            \/ Allowed(AclReadWrite(FileOf(c, op.num).acl), c.auth)
         /\ op.off + Len(op.data) <= Len(FileOf(c, op.num).data)
    [] op.name = "ReadData" ->
         /\ FileOf(c, op.num).exists
         /\ \/ Allowed(AclRead(FileOf(c, op.num).acl), c.auth)
            \/ Allowed(AclReadWrite(FileOf(c, op.num).acl), c.auth)
         /\ op.off + op.size <= Len(FileOf(c, op.num).data)
    [] op.name = "SetConfiguration" ->
         c.sel = masterAppId /\ c.auth = 0
    [] OTHER -> FALSE

\* the card after an operation it accepted
CardAfter(c, op) ==
  CASE op.name = "SelectApplication" ->
         [c EXCEPT !.sel = op.aid, !.auth = -1]
    [] op.name = "Authenticate" -> [c EXCEPT !.auth = op.num]
    [] op.name = "CreateApplication" ->
         [c EXCEPT !.apps[op.aid] =
            [exists |-> TRUE, settings |-> op.val,
             keys |-> [i \in 1..(op.num % 16) |-> defaultDESFireKey],
             files |-> <<NoFile, NoFile>>]]
    [] op.name = "ChangeKey" ->
         IF c.sel = masterAppId
         THEN [c EXCEPT !.piccKey = op.key,
                        !.auth = IF op.num = c.auth THEN -1 ELSE c.auth]
         ELSE [c EXCEPT !.apps[c.sel].keys[op.num + 1] = op.key,
                        !.auth = IF op.num = c.auth THEN -1 ELSE c.auth]
    [] op.name = "ChangeKeySettings" ->
         IF c.sel = masterAppId
         THEN [c EXCEPT !.piccSettings = op.val]
         ELSE [c EXCEPT !.apps[c.sel].settings = op.val]
    [] op.name = "CreateDataFile" ->
         [c EXCEPT !.apps[c.sel].files[op.num] =
            [exists |-> TRUE, comm |-> op.off, acl |-> op.val,
             data |-> Zeros(op.size)]]
    [] op.name = "ChangeFileSettings" ->
         [c EXCEPT !.apps[c.sel].files[op.num].comm = op.off,
                   !.apps[c.sel].files[op.num].acl = op.val]
    [] op.name = "WriteData" ->
         [c EXCEPT !.apps[c.sel].files[op.num].data =
            [i \in 1..Len(@) |->
               IF i > op.off /\ i <= op.off + Len(op.data)
               THEN op.data[i - op.off] ELSE @[i]]]
    [] op.name = "SetConfiguration" -> [c EXCEPT !.randomUID = TRUE]
    [] OTHER -> c

\* a failed Authenticate drops the authentication the session had
CardAfterError(c, op) ==
  IF op.name = "Authenticate" THEN [c EXCEPT !.auth = -1] ELSE c

\* the bytes an accepted operation returns
CardData(c, op) ==
  CASE op.name = "CardUID" -> c.uid
    [] op.name = "ReadData" ->
         SubSeq(FileOf(c, op.num).data, op.off + 1, op.off + op.size)
    [] OTHER -> <<>>

\* the length an accepted operation reports
CardCount(c, op) ==
  CASE op.name = "WriteData" -> Len(op.data)
    [] op.name = "ReadData" -> op.size
    [] OTHER -> 0

\* One call on the card session.  fault is what the transport does to the
\* call: "ok", "fault" (the call errors whatever the card holds) or "short"
\* (a read or write moves one byte less than asked).
CardCall(c, op, fault) ==
  IF fault = "fault" \/ ~CardAccepts(c, op)
  THEN [res |-> "err", n |-> 0, data |-> <<>>, card |-> CardAfterError(c, op)]
  ELSE IF fault = "short" /\ op.name \in {"WriteData", "ReadData"}
       THEN [res |-> "ok", n |-> CardCount(c, op) - 1,
             data |-> CardData(c, op), card |-> CardAfter(c, op)]
       ELSE [res |-> "ok", n |-> CardCount(c, op),
             data |-> CardData(c, op), card |-> CardAfter(c, op)]

(***************************************************************************)
(* Requests, realms and cards of the model                                 *)
(***************************************************************************)
UuidA == <<0, 1, 9, 10, 15, 16, 26, 127, 128, 159, 160, 171, 205, 239, 240, 255>>
UuidB == [i \in 1..16 |-> 171]
SecretA == <<1, 2, 3>>
SecretB == <<9>>
CardUid == <<4, 17, 34, 51, 68, 85, 102>>

\* A realm of a request, as the tasks receive it.  Slot is the integer of
\* the JSON body; bad names the field whose text does not decode ("" when
\* all decode); the other fields hold what the texts decode to.
RealmA ==
  [Name |-> "a", Slot |-> 3, AssociationID |-> UuidA, AuthKey |-> SecretA,
   ReadKey |-> <<7, 7>>, UpdateKey |-> <<5>>, PublicKey |-> 1,
   PrivateKey |-> 1, bad |-> ""]
RealmB == [RealmA EXCEPT !.Name = "b", !.AssociationID = UuidB]
RealmC ==
  [Name |-> "c", Slot |-> 15, AssociationID |-> UuidA, AuthKey |-> SecretB,
   ReadKey |-> <<>>, UpdateKey |-> <<6>>, PublicKey |-> 2, PrivateKey |-> 2,
   bad |-> ""]
RealmD == [RealmC EXCEPT !.Name = "d", !.Slot = 16]
\* the fields of a realm whose text can fail to decode
BadFields == {"id", "auth", "read", "update", "pem"}
\* realm a with one field that does not decode
BadRealm(f) == [RealmA EXCEPT !.Name = f, !.bad = f]
RealmPool == {RealmA, RealmB, RealmC, RealmD} \cup {BadRealm(f) : f \in BadFields}

RealmLists == UNION {[1..n -> RealmPool] : n \in 0..MaxRealms}

Requests ==
  [SystemSecret : {SecretA, SecretB}, secretOk : BOOLEAN, Realms : RealmLists]

Nonces == 1..MaxNonce
Faults == {"ok", "fault", "short"}

\* Realm.Slot is a uint32 and the application id is baseAppId + Slot
AppIdOf(realm) == (baseAppId + realm.Slot) % 16777216

FreshCard ==
  [uid |-> CardUid, piccKey |-> defaultDESFireKey, piccSettings |-> 15,
   randomUID |-> FALSE, apps |-> [a \in AppIds |-> NoApp],
   sel |-> masterAppId, auth |-> -1]

\* the first n bytes of b, zero-filled when b is shorter
Field(b, n) == [i \in 1..n |-> IF i <= Len(b) THEN b[i] ELSE 0]

\* the keys Issue derives
IssuePiccMasterKey(secret, uidv) ==
  DeriveDESFireKey(secret, NewDESFireAid(masterAppId), 0, uidv)
IssueAppMasterKey(secret, realm, uidv) ==
  DeriveDESFireKey(secret, NewDESFireAid(AppIdOf(realm)), 0, uidv)
IssueAppReadKey(realm) == GenDESFireKey(realm.ReadKey)
IssueAppAuthKey(secret, realm) ==
  DeriveDESFireKey(secret, NewDESFireAid(AppIdOf(realm)), 2,
                   UUIDString(realm.AssociationID))
IssueAppUpdateKey(secret, realm) ==
  DeriveDESFireKey(secret, NewDESFireAid(AppIdOf(realm)), 3,
                   UUIDString(realm.AssociationID))

\* A card that holds, for a realm, what the calls of Issue put on a blank
\* card: the keys derived from secret, the identifier file holding idText
\* and the authenticity file holding the signature sg.
CardWith(secret, realm, idText, sg) ==
  [FreshCard EXCEPT
     !.apps[AppIdOf(realm)] =
       [exists |-> TRUE, settings |-> finalApplicationSettings,
        keys |-> <<IssueAppMasterKey(secret, realm, CardUid),
                   IssueAppReadKey(realm),
                   IssueAppAuthKey(secret, realm),
                   IssueAppUpdateKey(secret, realm)>>,
        files |-> <<[exists |-> TRUE, comm |-> Enciphered,
                     acl |-> finalUUIDFileSettings, data |-> idText],
                    [exists |-> TRUE, comm |-> Enciphered,
                     acl |-> finalAuthenticityFileSettings,
                     data |-> Field(BigBytes(sg.r), authenticityRLength)
                                \o Field(BigBytes(sg.s), authenticitySLength)]>>]]

\* the cards a pass can meet: a blank one, a genuine one, one whose
\* signature another key pair made, one keyed from another secret, one
\* whose identifier file holds no identifier
GenuineCard ==
  CardWith(SecretA, RealmA, StripDashes(UUIDString(UuidA)),
           Sign(1, UUIDString(UuidA), 2))
ForgedCard ==
  CardWith(SecretA, RealmA, StripDashes(UUIDString(UuidA)),
           Sign(2, UUIDString(UuidA), 2))
OtherSecretCard ==
  CardWith(SecretB, RealmA, StripDashes(UUIDString(UuidA)),
           Sign(1, UUIDString(UuidA), 2))
GarbledCard ==
  CardWith(SecretA, RealmA, [i \in 1..mangledUUIDLength |-> 122],
           Sign(1, UUIDString(UuidA), 2))
Cards == {FreshCard, GenuineCard, ForgedCard, OtherSecretCard, GarbledCard}

(***************************************************************************)
(* Initial state                                                           *)
(***************************************************************************)
vars ==
  <<word, card, passes, mode, pc, req, systemSecret, realms, idx, uid, sig,
    tagUUID, rbuf, oplog, callStart, ret, failStep, log, output, devOpen,
    closeCalls, derived, taskStore, sigCall, creating, reader, outputs>>

NoRequest == [SystemSecret |-> <<>>, secretOk |-> TRUE, Realms |-> <<>>]
NoSig == [r |-> ZeroInt, s |-> ZeroInt]
\* no call of package sig has been made
NoCall == [fn |-> "none"]
\* an id of the task store no task has yet
NoTask == [Type |-> "none", Request |-> NoRequest, pc |-> "none"]

\* a handler that has not been called, and a channel nothing was written to
NoCreate == [pc |-> "none", Type |-> "none"]
NoReader == [fn |-> "none", id |-> 0, pc |-> "none", status |-> 0]
NoOutput == [run |-> "none", lines |-> 0, pending |-> 0, buf |-> 0,
             closed |-> FALSE]

Init ==
  /\ derived = <<>>
  /\ sigCall = NoCall
  /\ creating = [t \in 1..MaxTasks |-> NoCreate]
  /\ reader = NoReader
  /\ outputs = [t \in 1..MaxTasks |-> NoOutput]
  /\ taskStore = [t \in 1..MaxTasks |-> NoTask]
  /\ word \in {4, 8}
  /\ card \in Cards
  /\ passes = 0
  /\ mode = "idle"
  /\ pc = "idle"
  /\ req = NoRequest
  /\ systemSecret = <<>>
  /\ realms = <<>>
  /\ idx = 1
  /\ uid = <<>>
  /\ sig = NoSig
  /\ tagUUID = NilUUID
  /\ rbuf = <<>>
  /\ oplog = <<>>
  /\ callStart = 0
  /\ ret = "none"
  /\ failStep = ""
  /\ log = <<>>
  /\ output = <<>>
  /\ devOpen = FALSE
  /\ closeCalls = 0

(***************************************************************************)
(* tasks: parsing a request (taskIssue.Run, taskVerify.Run)                *)
(***************************************************************************)
\* the PEM texts of a realm of a request: those sig.Encode gives for its
\* keys, or texts without a block
PrivatePemOf(raw) ==
  IF raw.bad = "pem" THEN NoPem ELSE EncodePrivateKey(raw.PrivateKey)
PublicPemOf(raw) ==
  IF raw.bad = "pem" THEN NoPem ELSE EncodePublicKey(raw.PublicKey)

\* sig.DecodePrivateKey on the realm's text: the error, "" when it decodes
DecodePrivateKeyError(raw) == DecodePrivateKey(PrivatePemOf(raw)).err

\* sig.DecodePublicKey on the realm's text: the error; no text decodes
DecodePublicKeyError(raw) == DecodePublicKey(PublicPemOf(raw)).err

\* sig.Decode on the realm's texts: the error, "" when both decode
SigDecodeError(raw) == Decode(PrivatePemOf(raw), PublicPemOf(raw)).err

\* a variant of RealmError: a parse loop that checks nothing
NoRealmError(raw) == ""

\* the error the parse loop reports for one realm, "" when it decodes
RealmError(raw) ==
  IF raw.Slot < 0 \/ raw.Slot > 15
  THEN "invalid slot number for realm, must be between 0-14"
  ELSE CASE raw.bad = "id" -> "invalid UUID"
         [] raw.bad = "auth" -> "invalid auth key"
         [] raw.bad = "read" -> "invalid read key"
         [] raw.bad = "update" -> "invalid update key"
         [] OTHER -> SigDecodeError(raw)

\* the device.Realm appended for a realm that decodes
DecodedRealm(raw) ==
  [Name |-> raw.Name, Slot |-> raw.Slot, AssociationID |-> raw.AssociationID,
   AuthKey |-> raw.AuthKey, ReadKey |-> raw.ReadKey,
   UpdateKey |-> raw.UpdateKey, PublicKey |-> raw.PublicKey,
   PrivateKey |-> raw.PrivateKey]

\* The parse of a request: the system secret first, then the realms in
\* list order, stopping at the first error.
ParseRequest(r) ==
  IF ~r.secretOk
  THEN [err |-> "invalid system secret", secret |-> <<>>, realms |-> <<>>]
  ELSE LET bad == {i \in 1..Len(r.Realms) : RealmError(r.Realms[i]) # ""} IN
       IF bad # {}
       THEN [err |-> RealmError(r.Realms[CHOOSE i \in bad : \A j \in bad : i <= j]),
             secret |-> r.SystemSecret, realms |-> <<>>]
       ELSE [err |-> "", secret |-> r.SystemSecret,
             realms |-> [i \in 1..Len(r.Realms) |-> DecodedRealm(r.Realms[i])]]

(***************************************************************************)
(* device: nfcDevice.Issue                                                 *)
(***************************************************************************)
\* unsafe.Sizeof of a string value: the two-word string header
SizeofString(w) == 2 * w
\* unsafe.Sizeof of a []byte value: the three-word slice header
SizeofSlice(w) == 3 * w

\* the identifier-width check of a realm: TRUE when Issue rejects
MangledUUIDSizeBad(w, mangledUUID) == SizeofString(w) # mangledUUIDLength
\* the authenticity-width checks of a realm: TRUE when Issue rejects
RSizeBad(w, rDataBytes) == SizeofSlice(w) # authenticityRLength
SSizeBad(w, sDataBytes) == SizeofSlice(w) # authenticitySLength

\* the card calls of one realm, and those after the last realm, in order
RealmSteps ==
  <<"r_selM", "r_authM", "r_create", "r_selA", "r_authA", "r_ck1", "r_ck2",
    "r_ck3", "r_cf1", "r_w1", "r_cfs1", "r_cf2", "r_wR", "r_wS", "r_ck0",
    "r_auth0", "r_cks">>
\* a variant of PiccSteps: the random UID is enabled before the master key
\* is changed
PiccStepsConfigFirst ==
  <<"p_sel", "p_auth", "p_cfg", "p_cks1", "p_ck0", "p_auth2", "p_cks2">>
PiccSteps ==
  <<"p_sel", "p_auth", "p_cks1", "p_ck0", "p_auth2", "p_cks2", "p_cfg">>

SeqRange(q) == {q[i] : i \in 1..Len(q)}
IndexOf(q, x) == CHOOSE i \in 1..Len(q) : q[i] = x

\* the call Issue makes at a position, for the realm it is at
IssueOpFor(p, secret, realm, uidv, sg) ==
  CASE p = "uid" -> OpCardUID
    [] p = "r_selM" -> OpSelectApplication(masterAppId)
    [] p = "r_authM" -> OpAuthenticate(0, defaultDESFireKey)
    [] p = "r_create" ->
         OpCreateApplication(AppIdOf(realm), initialApplicationSettings,
                             4 + CryptoAES)
    [] p = "r_selA" -> OpSelectApplication(AppIdOf(realm))
    [] p = "r_authA" -> OpAuthenticate(0, defaultDESFireKey)
    [] p = "r_ck1" -> OpChangeKey(1, IssueAppReadKey(realm), defaultDESFireKey)
    [] p = "r_ck2" ->
         OpChangeKey(2, IssueAppAuthKey(secret, realm), defaultDESFireKey)
    [] p = "r_ck3" ->
         OpChangeKey(3, IssueAppUpdateKey(secret, realm), defaultDESFireKey)
    [] p = "r_cf1" ->
         OpCreateDataFile(1, Plain, initialUUIDFileSettings, mangledUUIDLength)
    [] p = "r_w1" ->
         OpWriteData(1, 0, StripDashes(UUIDString(realm.AssociationID)))
    [] p = "r_cfs1" -> OpChangeFileSettings(1, Enciphered, finalUUIDFileSettings)
    [] p = "r_cf2" ->
         OpCreateDataFile(2, Enciphered, finalAuthenticityFileSettings,
                          authenticityFileSize)
    [] p = "r_wR" -> OpWriteData(2, 0, BigBytes(sg.r))
    [] p = "r_wS" -> OpWriteData(2, authenticityRLength, BigBytes(sg.s))
    [] p = "r_ck0" ->
         OpChangeKey(0, IssueAppMasterKey(secret, realm, uidv), defaultDESFireKey)
    [] p = "r_auth0" -> OpAuthenticate(0, IssueAppMasterKey(secret, realm, uidv))
    [] p = "r_cks" -> OpChangeKeySettings(finalApplicationSettings)
    [] p = "p_sel" -> OpSelectApplication(masterAppId)
    [] p = "p_auth" -> OpAuthenticate(0, defaultDESFireKey)
    [] p = "p_cks1" -> OpChangeKeySettings(initialPICCSettings)
    [] p = "p_ck0" ->
         OpChangeKey(0, IssuePiccMasterKey(secret, uidv), defaultDESFireKey)
    [] p = "p_auth2" -> OpAuthenticate(0, IssuePiccMasterKey(secret, uidv))
    [] p = "p_cks2" -> OpChangeKeySettings(finalPICCSettings)
    [] p = "p_cfg" -> OpSetConfiguration

\* where Issue goes after a call that succeeded
IssueNextPc(p) ==
  IF p = "uid" \/ p = "r_cks" THEN "head"
  ELSE IF p \in SeqRange(RealmSteps) THEN RealmSteps[IndexOf(RealmSteps, p) + 1]
  ELSE IF p = "p_cfg" THEN "done"
  ELSE PiccSteps[IndexOf(PiccSteps, p) + 1]

\* variants of IssueFailPc: an Issue that goes on after a failed step, and
\* an Issue that skips a realm it rejects and goes on to the master application
IssueContinuePc(p) == IF p = "head" THEN "r_selM" ELSE IssueNextPc(p)
IssueSkipRealmPc(p) == IF p = "head" THEN "p_sel" ELSE "done"

\* where Issue goes after a step that failed: every failure returns
IssueFailPc(p) == "done"

\* what Issue returns when the card call at a position errors
IssueCardErrorReturn(p) == "nil"

\* the width Issue expects a write to report, 0 where it checks none
IssueWriteWidth(p) ==
  CASE p = "r_w1" -> mangledUUIDLength
    [] p = "r_wR" -> authenticityRLength
    [] p = "r_wS" -> authenticitySLength
    [] OTHER -> 0

\* what Issue returns when a write reports another width
IssueWidthError(p) ==
  CASE p = "r_w1" -> "err: failed to write UUID to target"
    [] p = "r_wR" -> "err: failed to write authenticity file (R value) to target"
    [] OTHER -> "err: failed to write authenticity file (S value) to target"

IssueRealm == IF idx <= Len(realms) THEN realms[idx] ELSE DecodedRealm(RealmA)

\* the device.Realm values and lists of them a caller can pass
DeviceRealms == {DecodedRealm(RealmA), DecodedRealm(RealmB), DecodedRealm(RealmC)}
DeviceRealmLists == UNION {[1..n -> DeviceRealms] : n \in 0..MaxRealms}

\* Issue is called on a connected target with a system secret and realms
DevIssueStart ==
  /\ mode = "idle"
  /\ passes < MaxPasses
  /\ req' = NoRequest
  /\ systemSecret' \in {SecretA, SecretB}
  /\ realms' \in DeviceRealmLists
  /\ passes' = passes + 1
  /\ mode' = "devIssue"
  /\ pc' = "uid"
  /\ card' = [card EXCEPT !.sel = masterAppId, !.auth = -1]
  /\ idx' = 1
  /\ uid' = <<>>
  /\ sig' = NoSig
  /\ tagUUID' = NilUUID
  /\ rbuf' = <<>>
  /\ oplog' = <<>>
  /\ callStart' = 0
  /\ ret' = "none"
  /\ failStep' = ""
  /\ log' = <<>>
  /\ output' = <<>>
  /\ closeCalls' = 0
  /\ UNCHANGED <<word, derived, taskStore, sigCall, creating, reader, outputs, devOpen>>

\* one card call of Issue, with the checks that follow it
IssueCall ==
  /\ mode = "devIssue"
  /\ pc \in {"uid"} \cup SeqRange(RealmSteps) \cup SeqRange(PiccSteps)
  /\ \E fault \in Faults :
       LET op == IssueOpFor(pc, systemSecret, IssueRealm, uid, sig)
           r == CardCall(card, op, fault)
       IN /\ card' = r.card
          /\ oplog' = Append(oplog, [op |-> op, res |-> r.res, n |-> r.n])
          /\ IF r.res = "err"
             THEN /\ ret' = IssueCardErrorReturn(pc)
                  /\ failStep' = pc
                  /\ pc' = IssueFailPc(pc)
                  /\ UNCHANGED <<uid, idx>>
             ELSE IF IssueWriteWidth(pc) # 0 /\ r.n # IssueWriteWidth(pc)
             THEN /\ ret' = IssueWidthError(pc)
                  /\ failStep' = pc
                  /\ pc' = IssueFailPc(pc)
                  /\ UNCHANGED <<uid, idx>>
             ELSE /\ pc' = IssueNextPc(pc)
                  /\ ret' = IF IssueNextPc(pc) = "done" THEN "nil" ELSE ret
                  /\ uid' = IF pc = "uid" THEN r.data ELSE uid
                  /\ idx' = IF pc = "r_cks" THEN idx + 1 ELSE idx
                  /\ UNCHANGED failStep
  /\ UNCHANGED <<word, derived, taskStore, sigCall, creating, reader, outputs, passes, mode, req, systemSecret, realms, sig, tagUUID,
                 rbuf, callStart, log, output, devOpen, closeCalls>>

\* The head of the realm loop: the width check of the identifier, the key
\* derivations, the signature and its width checks; after the last realm
\* the calls on the master application follow.
IssueHead ==
  /\ mode = "devIssue"
  /\ pc = "head"
  /\ IF idx > Len(realms)
     THEN /\ pc' = "p_sel"
          /\ UNCHANGED <<sig, ret, failStep>>
     ELSE \E nonce \in Nonces :
            LET realm == realms[idx]
                mangledUUID == StripDashes(UUIDString(realm.AssociationID))
                sg == Sign(realm.PrivateKey, UUIDString(realm.AssociationID), nonce)
            IN IF MangledUUIDSizeBad(word, mangledUUID)
               THEN /\ ret' = "err: unexpected size of mangled UUID"
                    /\ failStep' = "mangledSize"
                    /\ pc' = IssueFailPc(pc)
                    /\ UNCHANGED sig
               ELSE IF RSizeBad(word, BigBytes(sg.r))
               THEN /\ ret' = "err: unexpected size of authenticity data (R value)"
                    /\ failStep' = "rSize"
                    /\ pc' = IssueFailPc(pc)
                    /\ sig' = sg
               ELSE IF SSizeBad(word, BigBytes(sg.s))
               THEN /\ ret' = "err: unexpected size of authenticity data (S value)"
                    /\ failStep' = "sSize"
                    /\ pc' = IssueFailPc(pc)
                    /\ sig' = sg
               ELSE /\ pc' = "r_selM"
                    /\ sig' = sg
                    /\ UNCHANGED <<ret, failStep>>
  /\ UNCHANGED <<word, derived, taskStore, sigCall, creating, reader, outputs, card, passes, mode, req, systemSecret, realms, idx, uid,
                 tagUUID, rbuf, oplog, callStart, log, output, devOpen,
                 closeCalls>>

\* The operation has returned: its locals are gone.  The card stays on the
\* reader and keeps what was written to it; the session with it (selected
\* application, authentication) ends with the connection.
EndPass ==
  /\ mode # "idle"
  /\ pc = "done"
  /\ mode' = "idle"
  /\ pc' = "idle"
  /\ card' = [card EXCEPT !.sel = masterAppId, !.auth = -1]
  /\ req' = NoRequest
  /\ systemSecret' = <<>>
  /\ realms' = <<>>
  /\ idx' = 1
  /\ uid' = <<>>
  /\ sig' = NoSig
  /\ tagUUID' = NilUUID
  /\ rbuf' = <<>>
  /\ oplog' = <<>>
  /\ callStart' = 0
  /\ ret' = "none"
  /\ failStep' = ""
  /\ log' = <<>>
  /\ output' = <<>>
  /\ closeCalls' = 0
  /\ UNCHANGED <<word, derived, taskStore, sigCall, creating, reader, outputs, passes, devOpen>>

(***************************************************************************)
(* device: nfcDevice.Authenticate                                          *)
(***************************************************************************)
AuthAppReadKey(realm) == GenDESFireKey(realm.ReadKey)
AuthAppAuthKey(realm, targetUUID) ==
  DeriveDESFireKey(realm.AuthKey, NewDESFireAid(AppIdOf(realm)), 2,
                   UUIDString(targetUUID))

AuthSteps == <<"a_sel", "a_auth1", "a_readId", "a_auth2", "a_readR", "a_readS">>

\* a variant of AuthOpFor: an Authenticate that reads without authenticating
AuthOpUngated(p, realm, targetUUID) ==
  CASE p = "a_sel" -> OpSelectApplication(AppIdOf(realm))
    [] p = "a_auth1" -> OpSelectApplication(AppIdOf(realm))
    [] p = "a_readId" -> OpReadData(1, 0, mangledUUIDLength)
    [] p = "a_auth2" -> OpSelectApplication(AppIdOf(realm))
    [] p = "a_readR" -> OpReadData(2, 0, authenticityRLength)
    [] p = "a_readS" -> OpReadData(2, authenticityRLength, authenticitySLength)

\* a variant of AuthOpFor: an Authenticate that clears the identifier file
\* instead of reading it
AuthOpWriting(p, realm, targetUUID) ==
  CASE p = "a_sel" -> OpSelectApplication(AppIdOf(realm))
    [] p = "a_auth1" -> OpAuthenticate(1, AuthAppReadKey(realm))
    [] p = "a_readId" -> OpWriteData(1, 0, Zeros(mangledUUIDLength))
    [] p = "a_auth2" -> OpAuthenticate(2, AuthAppAuthKey(realm, targetUUID))
    [] p = "a_readR" -> OpReadData(2, 0, authenticityRLength)
    [] p = "a_readS" -> OpReadData(2, authenticityRLength, authenticitySLength)

\* the call Authenticate makes at a position
AuthOpFor(p, realm, targetUUID) ==
  CASE p = "a_sel" -> OpSelectApplication(AppIdOf(realm))
    [] p = "a_auth1" -> OpAuthenticate(1, AuthAppReadKey(realm))
    [] p = "a_readId" -> OpReadData(1, 0, mangledUUIDLength)
    [] p = "a_auth2" -> OpAuthenticate(2, AuthAppAuthKey(realm, targetUUID))
    [] p = "a_readR" -> OpReadData(2, 0, authenticityRLength)
    [] p = "a_readS" -> OpReadData(2, authenticityRLength, authenticitySLength)

\* the width Authenticate expects a read to report, 0 where it checks none
AuthReadWidth(p) ==
  CASE p = "a_readId" -> mangledUUIDLength
    [] p = "a_readR" -> authenticityRLength
    [] p = "a_readS" -> authenticitySLength
    [] OTHER -> 0

AuthWidthError(p) ==
  CASE p = "a_readId" -> "err: failed to read UUID from target"
    [] p = "a_readR" -> "err: failed to read authenticity data (R value) from target"
    [] OTHER -> "err: failed to read authenticity data (S value) from target"

\* what Authenticate returns when the card call at a position errors
AuthCardErrorReturn(p) == "err: card"

\* where Authenticate goes after a step that failed: it returns to its caller
AuthFailPc(p) == "a_ret"

\* a variant of AuthVerify: an Authenticate that accepts any signature
AcceptAnySignature(realm, targetUUID, rDataBytes, sDataBytes) == TRUE

\* the signature check that ends Authenticate
AuthVerify(realm, targetUUID, rDataBytes, sDataBytes) ==
  Verify(realm.PublicKey, UUIDString(targetUUID), SetBytes(rDataBytes),
         SetBytes(sDataBytes))

IsErr(r) == r \notin {"none", "nil"}

\* Authenticate is called on a connected target with a realm
DevAuthStart ==
  /\ mode = "idle"
  /\ passes < MaxPasses
  /\ \E realm \in DeviceRealms : realms' = <<realm>>
  /\ passes' = passes + 1
  /\ mode' = "devAuth"
  /\ pc' = "a_sel"
  /\ card' = [card EXCEPT !.sel = masterAppId, !.auth = -1]
  /\ req' = NoRequest
  /\ systemSecret' = <<>>
  /\ idx' = 1
  /\ uid' = <<>>
  /\ sig' = NoSig
  /\ tagUUID' = NilUUID
  /\ rbuf' = <<>>
  /\ oplog' = <<>>
  /\ callStart' = 0
  /\ ret' = "none"
  /\ failStep' = ""
  /\ log' = <<>>
  /\ output' = <<>>
  /\ closeCalls' = 0
  /\ UNCHANGED <<word, derived, taskStore, sigCall, creating, reader, outputs, devOpen>>

\* one card call of Authenticate, with the checks that follow it
AuthCall ==
  /\ mode \in {"devAuth", "verifyTask"}
  /\ pc \in SeqRange(AuthSteps)
  /\ \E fault \in Faults :
       LET realm == realms[idx]
           op == AuthOpFor(pc, realm, tagUUID)
           r == CardCall(card, op, fault)
           parsed == ParseBytes(Field(r.data, mangledUUIDLength))
       IN /\ card' = r.card
          /\ oplog' = Append(oplog, [op |-> op, res |-> r.res, n |-> r.n])
          /\ IF r.res = "err"
             THEN /\ ret' = AuthCardErrorReturn(pc)
                  /\ failStep' = pc
                  /\ pc' = AuthFailPc(pc)
                  /\ UNCHANGED <<tagUUID, rbuf>>
             ELSE IF AuthReadWidth(pc) # 0 /\ r.n # AuthReadWidth(pc)
             THEN /\ ret' = AuthWidthError(pc)
                  /\ failStep' = pc
                  /\ pc' = AuthFailPc(pc)
                  /\ UNCHANGED <<tagUUID, rbuf>>
             ELSE IF pc = "a_readId" /\ ~parsed.ok
             THEN /\ ret' = "err: invalid UUID format"
                  /\ failStep' = "parse"
                  /\ pc' = AuthFailPc(pc)
                  /\ UNCHANGED <<tagUUID, rbuf>>
             ELSE IF pc = "a_readS"
             THEN IF AuthVerify(realm, tagUUID, rbuf, r.data)
                  THEN /\ ret' = "nil"
                       /\ pc' = "a_ret"
                       /\ UNCHANGED <<tagUUID, rbuf, failStep>>
                  ELSE /\ ret' = "err: target UUID failed signature verification"
                       /\ failStep' = "verify"
                       /\ pc' = AuthFailPc(pc)
                       /\ UNCHANGED <<tagUUID, rbuf>>
             ELSE /\ pc' = AuthSteps[IndexOf(AuthSteps, pc) + 1]
                  /\ tagUUID' = IF pc = "a_readId" THEN parsed.uuid ELSE tagUUID
                  /\ rbuf' = IF pc = "a_readR" THEN r.data ELSE rbuf
                  /\ UNCHANGED <<ret, failStep>>
  /\ UNCHANGED <<word, derived, taskStore, sigCall, creating, reader, outputs, passes, mode, req, systemSecret, realms, idx, uid, sig,
                 callStart, log, output, devOpen, closeCalls>>

\* nfcTag.Authenticate: every card call of it is commented out
TagAuthenticateReturn(realm) == "nil"

\* nfcTag.Authenticate is called on a connected tag
TagAuthenticate ==
  /\ mode = "idle"
  /\ passes < MaxPasses
  /\ \E realm \in {DecodedRealm(RealmA), DecodedRealm(RealmC)} :
       /\ realms' = <<realm>>
       /\ ret' = TagAuthenticateReturn(realm)
  /\ passes' = passes + 1
  /\ mode' = "tagAuth"
  /\ pc' = "done"
  /\ card' = [card EXCEPT !.sel = masterAppId, !.auth = -1]
  /\ req' = NoRequest
  /\ systemSecret' = <<>>
  /\ idx' = 1
  /\ uid' = <<>>
  /\ sig' = NoSig
  /\ tagUUID' = NilUUID
  /\ rbuf' = <<>>
  /\ oplog' = <<>>
  /\ callStart' = 0
  /\ failStep' = ""
  /\ log' = <<>>
  /\ output' = <<>>
  /\ closeCalls' = 0
  /\ UNCHANGED <<word, derived, taskStore, sigCall, creating, reader, outputs, devOpen>>

(***************************************************************************)
(* device: nfcTag.Issue                                                    *)
(***************************************************************************)
\* nfcTag.Issue derives the PICC master key, which cannot fail, and
\* returns; every card call of it is commented out
TagIssueReturn(secret, rs, uidv) == "nil"

(***************************************************************************)
(* tasks: taskIssue.Run, taskVerify.Run                                    *)
(***************************************************************************)
Info(msg) == [lvl |-> "INFO", msg |-> msg]
Error(msg) == [lvl |-> "ERROR", msg |-> msg]

\* LogError of a task
LogError(l, msg) == l \o <<Error(msg), Error("Aborting")>>

\* the log after nfcDevice.Close, which logs only when the device closed
CloseLog(l, closed) ==
  IF closed THEN Append(l, Info("NFC device successfully closed"))
  ELSE l

\* the error branch shared by the tasks once the device is open: log the
\* error, close the device, log the error of the close if it has one
AbortLog(l, msg, closed) ==
  IF closed THEN CloseLog(LogError(l, msg), TRUE)
  ELSE LogError(LogError(l, msg), "close failed")

\* CreateIssueTask / CreateVerifyTask: the task is stored and Run started
TaskStart(kind) ==
  /\ mode = "idle"
  /\ passes < MaxPasses
  /\ req' \in Requests
  /\ passes' = passes + 1
  /\ mode' = kind
  /\ pc' = "parse"
  /\ systemSecret' = <<>>
  /\ realms' = <<>>
  /\ idx' = 1
  /\ uid' = <<>>
  /\ sig' = NoSig
  /\ tagUUID' = NilUUID
  /\ rbuf' = <<>>
  /\ oplog' = <<>>
  /\ callStart' = 0
  /\ ret' = "none"
  /\ failStep' = ""
  /\ log' = <<>>
  /\ output' = <<>>
  /\ closeCalls' = 0
  /\ UNCHANGED <<word, derived, taskStore, sigCall, creating, reader, outputs, card, devOpen>>

IssueTaskStart == TaskStart("issueTask")
VerifyTaskStart == TaskStart("verifyTask")

\* the parse of the request, the same in both tasks
TaskParse ==
  /\ mode \in {"issueTask", "verifyTask"}
  /\ pc = "parse"
  /\ LET parsed == ParseRequest(req)
         l == Append(log, Info("Parsing request..."))
     IN IF parsed.err # ""
        THEN /\ log' = LogError(l, parsed.err)
             /\ pc' = "done"
             /\ UNCHANGED <<systemSecret, realms>>
        ELSE /\ log' = Append(l, Info("Opening NFC device..."))
             /\ pc' = "open"
             /\ systemSecret' = parsed.secret
             /\ realms' = parsed.realms
  /\ UNCHANGED <<word, derived, taskStore, sigCall, creating, reader, outputs, card, passes, mode, req, idx, uid, sig, tagUUID, rbuf,
                 oplog, callStart, ret, failStep, output, devOpen, closeCalls>>

\* OpenNFCDevice
TaskOpen ==
  /\ mode \in {"issueTask", "verifyTask"}
  /\ pc = "open"
  /\ \E opened \in BOOLEAN :
       IF opened
       THEN /\ devOpen' = TRUE
            /\ log' = log \o <<Info("NFC reader opened"), Info("Waiting for card...")>>
            /\ pc' = "connect"
       ELSE /\ log' = LogError(log, "open failed")
            /\ pc' = "done"
            /\ UNCHANGED devOpen
  /\ UNCHANGED <<word, derived, taskStore, sigCall, creating, reader, outputs, card, passes, mode, req, systemSecret, realms, idx, uid,
                 sig, tagUUID, rbuf, oplog, callStart, ret, failStep, output,
                 closeCalls>>

\* Connect of the issue task (the device package with nfcTag): the poll
\* loop ends with a tag or with an error the task logs before closing
IssueTaskConnect ==
  /\ mode = "issueTask"
  /\ pc = "connect"
  /\ \E found \in BOOLEAN, closed \in BOOLEAN :
       IF found
       THEN /\ card' = [card EXCEPT !.sel = masterAppId, !.auth = -1]
            /\ uid' = card.uid
            /\ log' = log \o <<Info("Connected to a target"), Info("Writing tag...")>>
            /\ pc' = "t_issue"
            /\ UNCHANGED <<devOpen, closeCalls>>
       ELSE /\ log' = AbortLog(Append(log, Error("Failed to get tags from device")),
                               "connect failed", closed)
            /\ devOpen' = ~closed
            /\ closeCalls' = closeCalls + 1
            /\ pc' = "done"
            /\ UNCHANGED <<card, uid>>
  /\ UNCHANGED <<word, derived, taskStore, sigCall, creating, reader, outputs, passes, mode, req, systemSecret, realms, idx, sig,
                 tagUUID, rbuf, oplog, callStart, ret, failStep, output>>

\* tag.Issue and the task's handling of what it returns
IssueTaskIssue ==
  /\ mode = "issueTask"
  /\ pc = "t_issue"
  /\ \E closed \in BOOLEAN :
       LET r == TagIssueReturn(systemSecret, realms, uid)
           l == Append(log, Info("Deriving PICC master key..."))
       IN /\ ret' = r
          /\ IF IsErr(r)
             THEN /\ log' = AbortLog(l, r, closed)
                  /\ devOpen' = ~closed
                  /\ closeCalls' = closeCalls + 1
                  /\ pc' = "done"
             ELSE /\ log' = Append(l, Info("Closing NFC device..."))
                  /\ pc' = "t_close"
                  /\ UNCHANGED <<devOpen, closeCalls>>
  /\ UNCHANGED <<word, derived, taskStore, sigCall, creating, reader, outputs, card, passes, mode, req, systemSecret, realms, idx, uid,
                 sig, tagUUID, rbuf, oplog, callStart, failStep, output>>

\* the close that ends the issue task, and the response that follows it
IssueTaskClose ==
  /\ mode = "issueTask"
  /\ pc = "t_close"
  /\ \E closed \in BOOLEAN, closedAgain \in BOOLEAN :
       IF closed
       THEN /\ log' = CloseLog(log, TRUE)
            /\ devOpen' = FALSE
            /\ closeCalls' = closeCalls + 1
            /\ output' = HexOf(uid)
       ELSE /\ log' = AbortLog(log, "close failed", closedAgain)
            /\ devOpen' = ~closedAgain
            /\ closeCalls' = closeCalls + 2
            /\ UNCHANGED output
  /\ pc' = "done"
  /\ UNCHANGED <<word, derived, taskStore, sigCall, creating, reader, outputs, card, passes, mode, req, systemSecret, realms, idx, uid,
                 sig, tagUUID, rbuf, oplog, callStart, ret, failStep>>

\* Connect of the verify task (the device package with nfcDevice.Authenticate):
\* the poll loop ends with a target, or logs the error with Fatalf, which
\* ends the process
VerifyTaskConnect ==
  /\ mode = "verifyTask"
  /\ pc = "connect"
  /\ \E found \in BOOLEAN :
       IF found
       THEN /\ card' = [card EXCEPT !.sel = masterAppId, !.auth = -1]
            /\ log' = Append(log, Info("Connected to a target"))
            /\ pc' = "v_loop"
       ELSE /\ log' = Append(log, [lvl |-> "FATAL", msg |-> "Failed to get tags from device"])
            /\ pc' = "exited"
            /\ UNCHANGED card
  /\ UNCHANGED <<word, derived, taskStore, sigCall, creating, reader, outputs, passes, mode, req, systemSecret, realms, idx, uid, sig,
                 tagUUID, rbuf, oplog, callStart, ret, failStep, output,
                 devOpen, closeCalls>>

\* the head of the verify loop: the next realm, or the close after the last
VerifyLoop ==
  /\ mode = "verifyTask"
  /\ pc = "v_loop"
  /\ IF idx > Len(realms)
     THEN /\ pc' = "v_close"
          /\ log' = Append(log, Info("Closing NFC device..."))
          /\ UNCHANGED <<callStart, ret, failStep, tagUUID, rbuf>>
     ELSE /\ pc' = "a_sel"
          /\ log' = Append(log, Info("Verifying tag for realm..."))
          /\ callStart' = Len(oplog)
          /\ ret' = "none"
          /\ failStep' = ""
          /\ tagUUID' = NilUUID
          /\ rbuf' = <<>>
  /\ UNCHANGED <<word, derived, taskStore, sigCall, creating, reader, outputs, card, passes, mode, req, systemSecret, realms, idx, uid,
                 sig, oplog, output, devOpen, closeCalls>>

\* whether the identifier Authenticate returned is the one the realm expects
IdentifierMatches(realm, id) ==
  UUIDString(id) = UUIDString(realm.AssociationID)

\* where the verify task goes once a realm is verified
VerifyNextPc == "v_loop"

\* what the verify task logs for an error Authenticate returned: the error
\* itself is dropped
VerifyReport(r) == "unable to authenticate tag"

\* the task's handling of what Authenticate returned for a realm
VerifyCheck ==
  /\ mode = "verifyTask"
  /\ pc = "a_ret"
  /\ \E closed \in BOOLEAN :
       IF IsErr(ret)
       THEN /\ log' = AbortLog(log, VerifyReport(ret), closed)
            /\ devOpen' = ~closed
            /\ closeCalls' = closeCalls + 1
            /\ pc' = "done"
            /\ UNCHANGED idx
       ELSE IF ~IdentifierMatches(realms[idx], tagUUID)
       THEN /\ log' = AbortLog(log, "invalid UUID read from tag for realm", closed)
            /\ devOpen' = ~closed
            /\ closeCalls' = closeCalls + 1
            /\ pc' = "done"
            /\ UNCHANGED idx
       ELSE /\ idx' = idx + 1
            /\ pc' = VerifyNextPc
            /\ UNCHANGED <<log, devOpen, closeCalls>>
  /\ UNCHANGED <<word, derived, taskStore, sigCall, creating, reader, outputs, card, passes, mode, req, systemSecret, realms, uid, sig,
                 tagUUID, rbuf, oplog, callStart, ret, failStep, output>>

\* Authenticate has returned to its caller: a direct caller holds the
\* result, the verify task handles it
AuthReturn ==
  /\ pc = "a_ret"
  /\ IF mode = "devAuth"
     THEN /\ pc' = "done"
          /\ UNCHANGED <<word, derived, taskStore, sigCall, creating, reader, outputs, card, passes, mode, req, systemSecret, realms,
                         idx, uid, sig, tagUUID, rbuf, oplog, callStart, ret,
                         failStep, log, output, devOpen, closeCalls>>
     ELSE VerifyCheck

\* a variant of VerifyClose: Success is logged whatever Close returned
VerifyCloseUnchecked ==
  /\ mode = "verifyTask"
  /\ pc = "v_close"
  /\ \E closed \in BOOLEAN :
       /\ closeCalls' = closeCalls + 1
       /\ devOpen' = ~closed
       /\ log' = Append(CloseLog(log, closed), Info("Success"))
  /\ pc' = "done"
  /\ UNCHANGED <<word, derived, taskStore, sigCall, creating, reader, outputs, card, passes, mode, req, systemSecret, realms, idx, uid,
                 sig, tagUUID, rbuf, oplog, callStart, ret, failStep, output>>

\* the close that ends the verify task
VerifyClose ==
  /\ mode = "verifyTask"
  /\ pc = "v_close"
  /\ \E closed \in BOOLEAN :
       /\ closeCalls' = closeCalls + 1
       /\ devOpen' = ~closed
       /\ log' = IF closed
                 THEN Append(CloseLog(log, TRUE), Info("Success"))
                 ELSE LogError(log, "close failed")
  /\ pc' = "done"
  /\ UNCHANGED <<word, derived, taskStore, sigCall, creating, reader, outputs, card, passes, mode, req, systemSecret, realms, idx, uid,
                 sig, tagUUID, rbuf, oplog, callStart, ret, failStep, output>>

Next ==
  \/ DevIssueStart
  \/ IssueCall
  \/ IssueHead
  \/ TagAuthenticate
  \/ IssueTaskStart
  \/ VerifyTaskStart
  \/ TaskParse
  \/ TaskOpen
  \/ IssueTaskConnect
  \/ IssueTaskIssue
  \/ IssueTaskClose
  \/ VerifyTaskConnect
  \/ VerifyLoop
  \/ DevAuthStart
  \/ AuthCall
  \/ AuthReturn
  \/ VerifyClose
  \/ EndPass

Spec == Init /\ [][Next]_vars

(***************************************************************************)
(* keys: DeriveDESFireKey called on its own, any number of times           *)
(***************************************************************************)
KdfSecrets == {SecretA, SecretB}
KdfAppIds == {masterAppId, AppIdOf(RealmA)}
KdfKeyNums == {0, 2, 3}
KdfData == {<<>>, CardUid, UUIDString(UuidA)}

\* one call of DeriveDESFireKey; what it was given and what it returned is
\* kept, nothing else changes
DeriveCall ==
  /\ Len(derived) < MaxDerived
  /\ \E secret \in KdfSecrets, aid \in KdfAppIds, keyNum \in KdfKeyNums,
        data \in KdfData :
       derived' = Append(derived,
                         [secret |-> secret, appId |-> aid, keyNum |-> keyNum,
                          data |-> data,
                          key |-> DeriveDESFireKey(secret, NewDESFireAid(aid),
                                                   keyNum, data)])
  /\ UNCHANGED <<word, card, passes, mode, pc, req, systemSecret, realms, idx,
                 uid, sig, tagUUID, rbuf, oplog, callStart, ret, failStep,
                 log, output, devOpen, closeCalls, taskStore, sigCall, creating, reader, outputs>>

KdfInit == Init /\ card = FreshCard

KdfNext == DeriveCall

KdfSpec == KdfInit /\ [][KdfNext]_vars

(***************************************************************************)
(* tasks: several tasks created one after another, each Run on its own     *)
(* goroutine (CreateIssueTask, CreateVerifyTask)                           *)
(***************************************************************************)
passVars ==
  <<word, card, passes, mode, pc, req, systemSecret, realms, idx, uid, sig,
    tagUUID, rbuf, oplog, callStart, ret, failStep, log, output, devOpen,
    closeCalls>>

TaskIds == 1..MaxTasks
TaskTypes == {"issue", "verify"}
TaskRequests ==
  {r \in Requests :
     r.SystemSecret = SecretA /\ r.Realms \in {<<>>, <<RealmA>>}}

\* the positions of Run at which the task has the device open, and those
\* at which it is connected to the card
HoldsDevice(t) == taskStore[t].pc \in {"connect", "tag", "close"}
HoldsCard(t) == taskStore[t].pc \in {"tag", "close"}

\* CreateIssueTask / CreateVerifyTask: the task is put in the store and
\* `go task.Run()` starts it; the handler returns at once
CreateTask(t) ==
  /\ taskStore[t].Type = "none"
  /\ \A u \in TaskIds : u < t => taskStore[u].Type # "none"
  /\ \E type \in TaskTypes, r \in TaskRequests :
       taskStore' = [taskStore EXCEPT ![t] =
                       [Type |-> type, Request |-> r, pc |-> "parse"]]
  /\ UNCHANGED <<passVars, derived, sigCall, creating, reader, outputs>>

\* Run up to "Opening NFC device...": the parse of the request
RunParse(t) ==
  /\ taskStore[t].pc = "parse"
  /\ taskStore' = [taskStore EXCEPT ![t].pc =
                     IF ParseRequest(taskStore[t].Request).err # ""
                     THEN "done" ELSE "open"]
  /\ UNCHANGED <<passVars, derived, sigCall, creating, reader, outputs>>

\* Run: OpenNFCDevice.  Nothing in Run or in OpenNFCDevice asks whether
\* another task has the device; nfc.Open answers as the driver decides.
RunOpen(t) ==
  /\ taskStore[t].pc = "open"
  /\ \E opened \in BOOLEAN :
       taskStore' = [taskStore EXCEPT ![t].pc =
                       IF opened THEN "connect" ELSE "done"]
  /\ UNCHANGED <<passVars, derived, sigCall, creating, reader, outputs>>

\* Run: Connect.  Without a tag the issue task closes the device and
\* returns; in the verify task Connect ends the process (Fatalf).
RunConnect(t) ==
  /\ taskStore[t].pc = "connect"
  /\ \E found \in BOOLEAN :
       taskStore' =
         IF found THEN [taskStore EXCEPT ![t].pc = "tag"]
         ELSE IF taskStore[t].Type = "verify"
         THEN [u \in TaskIds |->
                 IF taskStore[u].Type = "none" THEN taskStore[u]
                 ELSE [taskStore[u] EXCEPT !.pc = "exited"]]
         ELSE [taskStore EXCEPT ![t].pc = "done"]
  /\ UNCHANGED <<passVars, derived, sigCall, creating, reader, outputs>>

\* Run: tag.Issue, or the realm loop of the verify task, on the connected
\* card; for the requests that pass the parse both return without error
RunTag(t) ==
  /\ taskStore[t].pc = "tag"
  /\ taskStore' = [taskStore EXCEPT ![t].pc = "close"]
  /\ UNCHANGED <<passVars, derived, sigCall, creating, reader, outputs>>

\* Run: the Close that ends the task
RunClose(t) ==
  /\ taskStore[t].pc = "close"
  /\ taskStore' = [taskStore EXCEPT ![t].pc = "done"]
  /\ UNCHANGED <<passVars, derived, sigCall, creating, reader, outputs>>

TaskInit == Init /\ card = FreshCard

TaskNext ==
  \/ \E t \in TaskIds : CreateTask(t)
  \/ \E t \in TaskIds : RunParse(t)
  \/ \E t \in TaskIds : RunOpen(t)
  \/ \E t \in TaskIds : RunConnect(t)
  \/ \E t \in TaskIds : RunTag(t)
  \/ \E t \in TaskIds : RunClose(t)

TaskSpec == TaskInit /\ [][TaskNext]_vars

(***************************************************************************)
(* sig: the functions of the package called on their own, one call from    *)
(* the initial state                                                       *)
(***************************************************************************)
\* texts a caller can hand to Decode: the encodings of the keys, a text
\* without a block, a block of another type, a PUBLIC KEY block with an RSA
\* key, and blocks whose body does not parse
RsaPublicPem ==
  [block |-> TRUE, Type |-> "PUBLIC KEY",
   Bytes |-> [form |-> "pkix", alg |-> "rsa", key |-> 1]]
PemTexts ==
  {EncodePrivateKey(k) : k \in KeyIds} \cup {EncodePublicKey(k) : k \in KeyIds}
    \cup {NoPem, RsaPublicPem,
          [block |-> TRUE, Type |-> "CERTIFICATE",
           Bytes |-> MarshalPKIXPublicKey(1)],
          [block |-> TRUE, Type |-> "EC PRIVATE KEY", Bytes |-> NoDer],
          [block |-> TRUE, Type |-> "PUBLIC KEY", Bytes |-> NoDer]}

SigMessages == {UUIDString(UuidA), UUIDString(UuidB)}
Signatures ==
  {Sign(k, m, n) : k \in KeyIds, m \in SigMessages, n \in Nonces}
\* numbers a caller can hand to Verify as R or S
SigInts ==
  {sg.r : sg \in Signatures} \cup {sg.s : sg \in Signatures}
    \cup {NegS(sg.s) : sg \in Signatures} \cup {ZeroInt, OtherInt}

GenerateKeyPairCall ==
  /\ sigCall = NoCall
  /\ \E k \in KeyIds :
       sigCall' = [fn |-> "GenerateKeyPair", in |-> <<>>,
                   out |-> GenerateKeyPair(k)]
  /\ UNCHANGED <<passVars, derived, taskStore, creating, reader, outputs>>

EncodeCall ==
  /\ sigCall = NoCall
  /\ \E k \in KeyIds :
       sigCall' = [fn |-> "Encode",
                   in |-> <<GenerateKeyPair(k).priv, GenerateKeyPair(k).pub>>,
                   out |-> Encode(GenerateKeyPair(k).priv,
                                  GenerateKeyPair(k).pub)]
  /\ UNCHANGED <<passVars, derived, taskStore, creating, reader, outputs>>

DecodeCall ==
  /\ sigCall = NoCall
  /\ \E privateKey \in PemTexts, publicKey \in PemTexts :
       sigCall' = [fn |-> "Decode", in |-> <<privateKey, publicKey>>,
                   out |-> Decode(privateKey, publicKey)]
  /\ UNCHANGED <<passVars, derived, taskStore, creating, reader, outputs>>

SignCall ==
  /\ sigCall = NoCall
  /\ \E k \in KeyIds, data \in SigMessages, nonce \in Nonces :
       sigCall' = [fn |-> "Sign", in |-> <<k, data>>,
                   out |-> Sign(k, data, nonce)]
  /\ UNCHANGED <<passVars, derived, taskStore, creating, reader, outputs>>

VerifyCall ==
  /\ sigCall = NoCall
  /\ \E k \in KeyIds, data \in SigMessages, r \in SigInts, s \in SigInts :
       sigCall' = [fn |-> "Verify", in |-> <<k, data, r, s>>,
                   out |-> Verify(k, data, r, s)]
  /\ UNCHANGED <<passVars, derived, taskStore, creating, reader, outputs>>

SigInit == Init /\ card = FreshCard

SigNext ==
  \/ GenerateKeyPairCall
  \/ EncodeCall
  \/ DecodeCall
  \/ SignCall
  \/ VerifyCall

SigSpec == SigInit /\ [][SigNext]_vars

(***************************************************************************)
(* tasks: the HTTP handlers on the task store and the output channel of a  *)
(* task (task.go, CreateIssueTask, CreateVerifyTask)                       *)
(***************************************************************************)
\* make(chan byte, 1024)
chanCapacity == 1024
\* the bytes of one line of a task's log in the model: half the channel
LineBytes == chanCapacity \div 2
\* http.StatusOK, http.StatusNotFound
StatusOK == 200
StatusNotFound == 404
\* an id that uuid.Parse rejects, and a well-formed id no task has
MalformedId == 0
UnknownId == MaxTasks + 1
RequestIds == TaskIds \cup {MalformedId, UnknownId}

\* a concurrent map write was detected: the runtime ended the process
Crashed == reader.pc = "crashed"
\* a handler is inside the assignment to the map, or inside a read of it
Inserting(t) == creating[t].pc \in {"insert", "insertRaced"}
Reading == reader.pc \in {"read", "readRaced"}
\* whether the map holds an entry for an id
InStore(id) == id \in TaskIds /\ taskStore[id].Type # "none"

\* the handlers that are inside an access of the map are marked as having
\* overlapped with another access
MarkCreating ==
  [u \in TaskIds |->
     IF Inserting(u) THEN [creating[u] EXCEPT !.pc = "insertRaced"]
     ELSE creating[u]]
MarkReader == IF Reading THEN [reader EXCEPT !.pc = "readRaced"] ELSE reader

\* CreateIssueTask / CreateVerifyTask up to the assignment to the map: the
\* request is bound, the task and its channel are made, the write begins.
\* No lock is taken: the write begins whatever the other handlers are doing.
CreateBegin(t) ==
  /\ ~Crashed
  /\ creating[t].pc = "none"
  /\ \A u \in TaskIds : u < t => creating[u].pc # "none"
  /\ \E type \in TaskTypes :
       LET overlap == Reading \/ \E u \in TaskIds : Inserting(u)
       IN /\ creating' =
               [MarkCreating EXCEPT ![t] =
                  [pc |-> IF overlap THEN "insertRaced" ELSE "insert",
                   Type |-> type]]
          /\ reader' = MarkReader
  /\ UNCHANGED <<passVars, derived, sigCall, taskStore, outputs>>

\* taskStore[task.ID] = task.  A write that overlapped with another access
\* of the map is a data race: the entry is stored, or it is lost, or the
\* runtime ends the process ("concurrent map writes").
CreateStore(t) ==
  /\ ~Crashed
  /\ Inserting(t)
  /\ \E outcome \in {"stored", "lost", "crash"} :
       /\ outcome # "stored" => creating[t].pc = "insertRaced"
       /\ taskStore' =
            IF outcome = "stored"
            THEN [taskStore EXCEPT ![t] =
                    [Type |-> creating[t].Type, Request |-> NoRequest,
                     pc |-> "created"]]
            ELSE taskStore
       /\ reader' = IF outcome = "crash"
                    THEN [reader EXCEPT !.pc = "crashed"] ELSE reader
       /\ creating' = [creating EXCEPT ![t].pc = "stored"]
  /\ UNCHANGED <<passVars, derived, sigCall, outputs>>

\* go task.Run(): Run starts on its own goroutine, with the lines it will log
CreateGo(t) ==
  /\ ~Crashed
  /\ creating[t].pc = "stored"
  /\ creating' = [creating EXCEPT ![t].pc = "started"]
  /\ \E n \in 1..MaxLines :
       outputs' = [outputs EXCEPT ![t].run = "run", ![t].lines = n,
                                  ![t].pending = LineBytes]
  /\ UNCHANGED <<passVars, derived, sigCall, taskStore, reader>>

\* the redirect that names the task is sent
CreateRespond(t) ==
  /\ ~Crashed
  /\ creating[t].pc = "started"
  /\ creating' = [creating EXCEPT ![t].pc = "sent"]
  /\ UNCHANGED <<passVars, derived, sigCall, taskStore, reader, outputs>>

\* chanWriter.Write under a log call of Run: the bytes of the line go into
\* the channel one after another; the send blocks while the channel is full
RunWrite(t) ==
  /\ ~Crashed
  /\ outputs[t].run = "run"
  /\ outputs[t].lines > 0
  /\ outputs[t].buf < chanCapacity
  /\ LET o == outputs[t]
         k == Min(o.pending, chanCapacity - o.buf)
         last == o.pending = k
     IN outputs' =
          [outputs EXCEPT ![t].buf = o.buf + k,
                          ![t].lines = IF last THEN o.lines - 1 ELSE o.lines,
                          ![t].pending =
                            IF ~last THEN o.pending - k
                            ELSE IF o.lines > 1 THEN LineBytes ELSE 0]
  /\ UNCHANGED <<passVars, derived, sigCall, taskStore, creating, reader>>

\* Run returns after its last log call; it does not close the channel
RunReturn(t) ==
  /\ ~Crashed
  /\ outputs[t].run = "run"
  /\ outputs[t].lines = 0
  /\ outputs' = [outputs EXCEPT ![t].run = "done"]
  /\ UNCHANGED <<passVars, derived, sigCall, taskStore, creating, reader>>

\* GetTask, GetTasks or GetTaskLog up to the access of the map: a malformed
\* id is answered before the map is read
ReadBegin ==
  /\ ~Crashed
  /\ reader.pc \in {"none", "done", "ended"}
  /\ \E fn \in {"GetTask", "GetTasks", "GetTaskLog"}, id \in RequestIds :
       IF fn # "GetTasks" /\ id = MalformedId
       THEN /\ reader' = [fn |-> fn, id |-> id, pc |-> "done",
                          status |-> StatusNotFound]
            /\ UNCHANGED creating
       ELSE /\ reader' =
                 [fn |-> fn, id |-> IF fn = "GetTasks" THEN MalformedId ELSE id,
                  pc |-> IF \E u \in TaskIds : Inserting(u)
                         THEN "readRaced" ELSE "read",
                  status |-> 0]
            /\ creating' = MarkCreating
  /\ UNCHANGED <<passVars, derived, sigCall, taskStore, outputs>>

\* the read of the map and the answer.  A read that overlapped with a write
\* sees the entry or not, or the runtime ends the process.
ReadEnd ==
  /\ ~Crashed
  /\ Reading
  /\ \E found \in BOOLEAN, crash \in BOOLEAN :
       /\ reader.pc = "read" => (~crash /\ found = InStore(reader.id))
       /\ found => (reader.id \in TaskIds /\ creating[reader.id].pc # "none")
       /\ reader' =
            IF crash THEN [reader EXCEPT !.pc = "crashed"]
            ELSE IF reader.fn = "GetTasks"
            THEN [reader EXCEPT !.pc = "done", !.status = StatusOK]
            ELSE IF ~found
            THEN [reader EXCEPT !.pc = "done", !.status = StatusNotFound]
            ELSE IF reader.fn = "GetTask"
            THEN [reader EXCEPT !.pc = "done", !.status = StatusOK]
            ELSE [reader EXCEPT !.pc = "stream"]
  /\ UNCHANGED <<passVars, derived, sigCall, taskStore, creating, outputs>>

\* the receive loop of GetTaskLog: bytes are taken from the channel and
\* sent on; the loop ends when a send fails or when the channel is closed
\* and empty, and waits while the channel is open and empty
LogReceive ==
  /\ ~Crashed
  /\ reader.pc = "stream"
  /\ LET t == reader.id
         o == outputs[t]
     IN IF o.buf > 0
        THEN \E sendOk \in BOOLEAN :
               /\ outputs' = [outputs EXCEPT ![t].buf = o.buf - Min(o.buf, LineBytes)]
               /\ reader' = IF sendOk THEN reader
                            ELSE [reader EXCEPT !.pc = "done"]
        ELSE /\ o.closed
             /\ reader' = [reader EXCEPT !.pc = "ended"]
             /\ UNCHANGED outputs
  /\ UNCHANGED <<passVars, derived, sigCall, taskStore, creating>>

RegistryInit == Init /\ card = FreshCard /\ word = 8

RegistryNext ==
  \/ \E t \in TaskIds : CreateBegin(t)
  \/ \E t \in TaskIds : CreateStore(t)
  \/ \E t \in TaskIds : CreateGo(t)
  \/ \E t \in TaskIds : CreateRespond(t)
  \/ \E t \in TaskIds : RunWrite(t)
  \/ \E t \in TaskIds : RunReturn(t)
  \/ ReadBegin
  \/ ReadEnd
  \/ LogReceive

RegistrySpec == RegistryInit /\ [][RegistryNext]_vars

\* every goroutine that can take a step is scheduled in the end
RegistryFairSpec ==
  /\ RegistrySpec
  /\ \A t \in TaskIds :
       /\ WF_vars(CreateStore(t))
       /\ WF_vars(CreateGo(t))
       /\ WF_vars(CreateRespond(t))
       /\ WF_vars(RunWrite(t))
       /\ WF_vars(RunReturn(t))
  /\ WF_vars(ReadEnd)
  /\ WF_vars(LogReceive)

(***************************************************************************)
(* device: nfcDevice.Connect, the poll loop of both revisions              *)
(***************************************************************************)
Warn(msg) == [lvl |-> "WARN", msg |-> msg]

\* what a poll of the reader can meet: GetTags fails, no tag, a tag that is
\* not a DESFire tag, a DESFire tag that refuses the connection, one whose
\* version cannot be read, one older than EV1, one of the supported kind
Findings ==
  {"error", "none", "other", "refused", "noVersion", "ev0", "desfire"}

\* Connect is called on an open device: "connect0" is the revision that
\* returns a freefare.DESFireTag, "connect1" the one that returns an nfcTag
ConnectStart ==
  /\ mode = "idle"
  /\ pc = "idle"
  /\ mode' \in {"connect0", "connect1"}
  /\ pc' = "poll"
  /\ log' = <<Info("Waiting for card...")>>
  /\ UNCHANGED <<word, card, passes, req, systemSecret, realms, idx, uid, sig,
                 tagUUID, rbuf, oplog, callStart, ret, failStep, output,
                 devOpen, closeCalls, derived, taskStore, sigCall, creating,
                 reader, outputs>>

\* one turn of the loop: GetTags, the type assertion, target.Connect and,
\* in the later revision, target.Version and the check of the major version
ConnectPoll ==
  /\ mode \in {"connect0", "connect1"}
  /\ pc = "poll"
  /\ Len(oplog) < MaxPolls
  /\ \E found \in Findings :
       /\ oplog' = Append(oplog, [op |-> "GetTags", res |-> found, n |-> 0])
       /\ IF found = "error"
          THEN /\ ret' = "err: GetTags"
               /\ IF mode = "connect0"
                  THEN /\ log' = Append(log, [lvl |-> "FATAL",
                                              msg |-> "Failed to get tags from device"])
                       /\ pc' = "exited"
                  ELSE /\ log' = Append(log, Error("Failed to get tags from device"))
                       /\ pc' = "returned"
          ELSE IF found = "none"
          THEN UNCHANGED <<log, pc, ret>>
          ELSE IF found = "other"
          THEN /\ log' = Append(log, Warn(IF mode = "connect0"
                                          THEN "Not a DESFire target, ignoring"
                                          ELSE "tag not supported, must be DESFire EV1 or later"))
               /\ UNCHANGED <<pc, ret>>
          ELSE IF found = "refused"
          THEN /\ log' = Append(log, Warn("Unable to connect to target, ignoring"))
               /\ UNCHANGED <<pc, ret>>
          ELSE IF mode = "connect1" /\ found = "noVersion"
          THEN /\ log' = Append(log, Warn("failed to retrieve tag version info, please try again"))
               /\ UNCHANGED <<pc, ret>>
          ELSE IF mode = "connect1" /\ found = "ev0"
          THEN /\ ret' = "err: tag not supported, must be DESFire EV1 or later"
               /\ pc' = "returned"
               /\ UNCHANGED log
          ELSE /\ ret' = "target"
               /\ pc' = "returned"
               /\ log' = Append(log, Info("Connected to a target"))
  /\ UNCHANGED <<word, card, passes, mode, req, systemSecret, realms, idx, uid,
                 sig, tagUUID, rbuf, callStart, failStep, output, devOpen,
                 closeCalls, derived, taskStore, sigCall, creating, reader,
                 outputs>>

ConnectInit == Init /\ card = FreshCard /\ word = 8

ConnectNext == ConnectStart \/ ConnectPoll

ConnectSpec == ConnectInit /\ [][ConnectNext]_vars

(***************************************************************************)
(* Properties                                                              *)
(***************************************************************************)
MaxOf(S) == CHOOSE x \in S : \A y \in S : y <= x

\* the positions of Issue at which it calls the card
IssueCallSteps == {"uid"} \cup SeqRange(RealmSteps) \cup SeqRange(PiccSteps)

\* Issue has returned
IssueReturned == mode = "devIssue" /\ pc = "done"

\* the application selected on the card before call k of the pass
SelectedBefore(k) ==
  LET sels == {j \in 1..(k - 1) : /\ oplog[j].op.name = "SelectApplication"
                                  /\ oplog[j].res = "ok"}
  IN IF sels = {} THEN masterAppId ELSE oplog[MaxOf(sels)].op.aid

\* the names and key/file numbers of the calls of one realm, in order
RealmCallNames ==
  <<"SelectApplication", "Authenticate", "CreateApplication",
    "SelectApplication", "Authenticate", "ChangeKey", "ChangeKey",
    "ChangeKey", "CreateDataFile", "WriteData", "ChangeFileSettings",
    "CreateDataFile", "WriteData", "WriteData", "ChangeKey", "Authenticate",
    "ChangeKeySettings">>
RealmCallNums ==
  <<0, 0, 4 + CryptoAES, 0, 0, 1, 2, 3, 1, 1, 1, 2, 2, 2, 0, 0, 0>>

\* the calls of the pass after CardUID start with the calls of every realm
\* of the request, realm after realm
RealmCallsIssued ==
  /\ Len(oplog) >= 1 + Len(RealmCallNames) * Len(realms)
  /\ \A i \in 1..Len(realms), j \in 1..Len(RealmCallNames) :
       LET e == oplog[1 + Len(RealmCallNames) * (i - 1) + j] IN
       /\ e.op.name = RealmCallNames[j]
       /\ e.op.num = RealmCallNums[j]
       /\ e.res = "ok"
       /\ j \in {1} => e.op.aid = masterAppId
       /\ j \in {3, 4} => e.op.aid = AppIdOf(realms[i])

C2_FailFast ==
  [][(mode = "devIssue" /\ failStep # "")
       => (pc = "done" /\ (mode' = "devIssue" => oplog' = oplog))]_vars

\* Issue failed the width check of its first realm with a second realm
\* and the master application still to come, and only CardUID was called
C2_Witness ==
  /\ IssueReturned
  /\ failStep = "mangledSize"
  /\ Len(realms) = 2
  /\ idx = 1
  /\ Len(oplog) = 1

\* C3 (as stated): when a step of Issue fails, Issue returns an error.
C3_FailureReturnsError == (IssueReturned /\ failStep # "") => IsErr(ret)

\* what Issue leaves on a card for a realm: the application with its final
\* settings, no key at its default, both files written
Provisioned(c, realm) ==
  LET app == c.apps[AppIdOf(realm)] IN
  /\ app.exists
  /\ app.settings = finalApplicationSettings
  /\ \A k \in 1..4 : app.keys[k] # defaultDESFireKey
  /\ \A f \in 1..2 : app.files[f].exists /\ app.files[f].data # <<>>

\* the master key of the card is rotated and the card answers a random UID
PiccFinal(c) == c.piccKey # defaultDESFireKey /\ c.randomUID

\* issuance reports success: the task sends the UID, or Issue returns nil
IssueSucceeded ==
  \/ mode = "issueTask" /\ output # <<>>
  \/ IssueReturned /\ ret = "nil"

\* C4 (as stated): issuance reports success only if every realm of the
\* request is provisioned on the card, the master key is rotated and the
\* random UID is on.
C4_SuccessMeansProvisioned ==
  IssueSucceeded
    => (PiccFinal(card) /\ \A i \in 1..Len(realms) : Provisioned(card, realms[i]))

\* call k of the pass changes key 0 of the master application
PiccKeyChangeAt(k) ==
  /\ oplog[k].op.name = "ChangeKey"
  /\ oplog[k].op.num = 0
  /\ SelectedBefore(k) = masterAppId

\* before call k the realm had its final settings applied
RealmCompletedBefore(realm, k) ==
  \E j \in 1..(k - 1) :
    /\ oplog[j].op = OpChangeKeySettings(finalApplicationSettings)
    /\ oplog[j].res = "ok"
    /\ SelectedBefore(j) = AppIdOf(realm)

AuthCalls == SubSeq(oplog, callStart + 1, Len(oplog))

\* Authenticate of the verify task is running or has just returned
InAuthenticate == mode = "devAuth" /\ pc \in SeqRange(AuthSteps) \cup {"a_ret"}

\* the slot-2 key of the application of the realm on the card
InstalledAuthKey(c, realm) == c.apps[AppIdOf(realm)].keys[3]

\* the card holds the application of the realm with the slot-2 key that
\* Issue installs for it under some system secret
IssuedFor(c, realm) ==
  /\ c.apps[AppIdOf(realm)].exists
  /\ \E secret \in {SecretA, SecretB} :
       InstalledAuthKey(c, realm) = IssueAppAuthKey(secret, realm)

\* C6 (as stated): on a card that holds what Issue installs for the realm,
\* the slot-2 key Authenticate presents is the slot-2 key on the card.
C6_AuthKeyAgreement ==
  (InAuthenticate /\ IssuedFor(card, realms[idx]))
    => \A k \in 1..Len(AuthCalls) :
         (AuthCalls[k].op.name = "Authenticate" /\ AuthCalls[k].op.num = 2)
           => AuthCalls[k].op.key = InstalledAuthKey(card, realms[idx])

\* an authentication reports success
AuthSucceeded ==
  \/ mode = "devAuth" /\ pc = "a_ret" /\ ret = "nil"
  \/ mode = "tagAuth" /\ pc = "done" /\ ret = "nil"

\* the six calls of Authenticate were made in order and each succeeded,
\* the reads with their full width
AllGatesPassed ==
  /\ Len(AuthCalls) = Len(AuthSteps)
  /\ \A k \in 1..Len(AuthCalls) :
       /\ AuthCalls[k].res = "ok"
       /\ AuthCalls[k].op.name =
            <<"SelectApplication", "Authenticate", "ReadData", "Authenticate",
              "ReadData", "ReadData">>[k]
       /\ AuthCalls[k].op.name = "ReadData" => AuthCalls[k].n = AuthCalls[k].op.size

\* C7 (as stated): an authentication reports success only if the select,
\* both authentications and the three full-width reads all succeeded and
\* the signature verified.
C7_SuccessMeansAllGates ==
  AuthSucceeded
    => /\ AllGatesPassed
       /\ Verify(realms[idx].PublicKey, UUIDString(tagUUID), SetBytes(rbuf),
                 SetBytes(Field(SubSeq(FileOf(card, 2).data,
                                       authenticityRLength + 1,
                                       authenticityFileSize),
                                authenticitySLength)))

\* the authenticity file as Issue lays it out for a signature
SigFile(sg) ==
  Field(BigBytes(sg.r), authenticityRLength)
    \o Field(BigBytes(sg.s), authenticitySLength)

\* the card holds, for the realm, a well-formed identifier and a signature
\* over it made by a key pair that is not the realm's
ForgedFor(c, realm) ==
  LET app == c.apps[AppIdOf(realm)]
      id == ParseBytes(Field(app.files[1].data, mangledUUIDLength))
  IN /\ app.exists
     /\ id.ok
     /\ \E k \in {1, 2} \ {realm.PublicKey}, nonce \in Nonces :
          /\ SigLen(nonce) = authenticityRLength
          /\ app.files[2].data = SigFile(Sign(k, UUIDString(id.uuid), nonce))

\* every call Authenticate made so far was answered without an error, the
\* reads with their full width
NoCallFailed ==
  \A k \in 1..Len(AuthCalls) :
    /\ AuthCalls[k].res = "ok"
    /\ AuthCalls[k].op.name = "ReadData" => AuthCalls[k].n = AuthCalls[k].op.size

IdOnCard(c, realm) ==
  ParseBytes(Field(c.apps[AppIdOf(realm)].files[1].data, mangledUUIDLength)).uuid

\* C9: in every Authenticate, a read of file 1 directly follows a successful
\* authentication with the read key in slot 1, which follows the successful
\* select of the realm's application; a read of file 2 at offset 0 directly
\* follows a successful authentication in slot 2 with the key derived from
\* the identifier read from file 1; a read of file 2 at another offset is
\* at the width of R and directly follows the successful read at offset 0.
C9_GatesOrdered ==
  InAuthenticate
    => LET q == AuthCalls
           realm == realms[idx]
       IN \A k \in 1..Len(q) :
            /\ (q[k].op.name = "ReadData" /\ q[k].op.num = 1)
                 => /\ k >= 3
                    /\ q[k - 2].op = OpSelectApplication(AppIdOf(realm))
                    /\ q[k - 2].res = "ok"
                    /\ q[k - 1].op = OpAuthenticate(1, GenDESFireKey(realm.ReadKey))
                    /\ q[k - 1].res = "ok"
            /\ (q[k].op.name = "ReadData" /\ q[k].op.num = 2 /\ q[k].op.off = 0)
                 => /\ k >= 3
                    /\ q[k - 2].op.name = "ReadData"
                    /\ q[k - 2].op.num = 1
                    /\ q[k - 2].res = "ok"
                    /\ q[k - 1].op =
                         OpAuthenticate(2,
                           DeriveDESFireKey(realm.AuthKey,
                                            NewDESFireAid(AppIdOf(realm)), 2,
                                            UUIDString(IdOnCard(card, realm))))
                    /\ q[k - 1].res = "ok"
            /\ (q[k].op.name = "ReadData" /\ q[k].op.num = 2 /\ q[k].op.off # 0)
                 => /\ q[k].op.off = authenticityRLength
                    /\ k >= 2
                    /\ q[k - 1].op = OpReadData(2, 0, authenticityRLength)
                    /\ q[k - 1].res = "ok"
            /\ q[k].op.name = "ReadData" => q[k].op.num \in {1, 2}

\* Authenticate has read the identifier, R and S and returned success
C9_Witness ==
  /\ mode = "devAuth"
  /\ pc = "a_ret"
  /\ ret = "nil"
  /\ Len(AuthCalls) = 6
  /\ AuthCalls[6].op = OpReadData(2, authenticityRLength, authenticitySLength)

\* a realm of a request is well formed: its slot is a slot of the card
\* layout and each of its texts is the encoding of a value
WellFormedRealm(raw) == raw.Slot \in 0..14 /\ raw.bad = ""

\* a request is well formed
WellFormed(r) ==
  r.secretOk /\ \A i \in 1..Len(r.Realms) : WellFormedRealm(r.Realms[i])

\* the task went past the parse of its request
ParsePassed == \E i \in 1..Len(log) : log[i].msg = "Opening NFC device..."

InTask == mode \in {"issueTask", "verifyTask"}

\* the task has logged an error
ErrorLogged == \E i \in 1..Len(log) : log[i].lvl = "ERROR"

SlotErrorLogged ==
  \E i \in 1..Len(log) :
    log[i].msg = "invalid slot number for realm, must be between 0-14"

\* C12 (as stated): a task whose request has a first realm with a slot
\* outside 0..14 ends with the slot error logged.
C12_SlotRangeRejected ==
  (InTask /\ pc = "done" /\ req.secretOk /\ Len(req.Realms) >= 1
     /\ req.Realms[1].Slot \notin 0..14)
    => SlotErrorLogged

\* Issue is at the head of its loop with a realm to provision
AtRealmHead == mode = "devIssue" /\ pc = "head" /\ idx <= Len(realms)

\* the identifier text Issue writes for the realm it is at
MangledOf(realm) == StripDashes(UUIDString(realm.AssociationID))

\* C13 (as stated): the identifier text of a realm has the declared width,
\* and Issue fails the identifier-width check of a realm only when the
\* length of its identifier text differs from the declared width.
C13_WidthCheckByLength ==
  /\ AtRealmHead => Len(MangledOf(realms[idx])) = mangledUUIDLength
  /\ (IssueReturned /\ failStep = "mangledSize")
       => Len(MangledOf(realms[idx])) # mangledUUIDLength

\* the signatures Issue can obtain for a realm
SignaturesOf(realm) ==
  {Sign(realm.PrivateKey, UUIDString(realm.AssociationID), nonce) :
     nonce \in Nonces}

\* C14 (as stated): for the realm Issue is at, the width checks of R and S
\* reject exactly the signatures whose serialized R, respectively S, has a
\* length other than the declared width.
C14_SigCheckByLength ==
  AtRealmHead
    => \A sg \in SignaturesOf(realms[idx]) :
         /\ RSizeBad(word, BigBytes(sg.r))
              <=> Len(BigBytes(sg.r)) # authenticityRLength
         /\ SSizeBad(word, BigBytes(sg.s))
              <=> Len(BigBytes(sg.s)) # authenticitySLength

\* C15 (as stated): for the realm Issue is at, every signature Sign can
\* produce serializes to R and S of exactly the declared widths.
C15_SigComponentsFullWidth ==
  AtRealmHead
    => \A sg \in SignaturesOf(realms[idx]) :
         /\ Len(BigBytes(sg.r)) = authenticityRLength
         /\ Len(BigBytes(sg.s)) = authenticitySLength

\* the keys of the application of a realm on the card are those derived
\* from the system secret, the application id, the slot and the card UID or
\* the identifier, slot 1 the key made from the realm's read secret
RealmKeysAsDerived(c, secret, realm, uidv) ==
  LET app == c.apps[AppIdOf(realm)]
      aid == NewDESFireAid(AppIdOf(realm))
      id == UUIDString(realm.AssociationID)
  IN /\ app.exists
     /\ app.keys[1] = DeriveDESFireKey(secret, aid, 0, uidv)
     /\ app.keys[2] = GenDESFireKey(realm.ReadKey)
     /\ app.keys[3] = DeriveDESFireKey(secret, aid, 2, id)
     /\ app.keys[4] = DeriveDESFireKey(secret, aid, 3, id)

\* the master key of the card is the one derived from the system secret,
\* application id 0, slot 0 and the card UID
PiccKeyAsDerived(c, secret, uidv) ==
  c.piccKey = DeriveDESFireKey(secret, NewDESFireAid(masterAppId), 0, uidv)

\* C16 (as stated): when issuance has completed without failure the card
\* holds the derived master key and, for every realm of the request, the
\* derived keys in slots 0, 2 and 3 and the read key in slot 1.
C16_KeysAsDerived ==
  IssueSucceeded
    => /\ PiccKeyAsDerived(card, systemSecret, uid)
       /\ \A i \in 1..Len(realms) :
            RealmKeysAsDerived(card, systemSecret, realms[i], uid)

\* two calls were given the same secret, application id, key number and
\* diversifier
SameInputs(a, b) ==
  /\ a.secret = b.secret
  /\ a.appId = b.appId
  /\ a.keyNum = b.keyNum
  /\ a.data = b.data

KdfTuple(c) == <<c.appId, c.keyNum, c.data>>

\* C18: the stream a call feeds to the MAC is the 3 bytes of the
\* application id, the byte of the key number and the diversifier, and two
\* calls with different (application id, key number, diversifier) feed
\* different streams.
C18_StreamInjective ==
  /\ \A i \in 1..Len(derived) :
       derived[i].key.msg
         = NewDESFireAid(derived[i].appId) \o <<derived[i].keyNum>>
             \o derived[i].data
  /\ \A i, j \in 1..Len(derived) :
       derived[i].key.msg = derived[j].key.msg
         => KdfTuple(derived[i]) = KdfTuple(derived[j])

\* two calls with the same secret, application id and diversifier and
\* different key numbers, and two whose diversifiers differ in length
C18_Witness ==
  /\ Len(derived) = 3
  /\ derived[1].secret = derived[2].secret
  /\ derived[1].appId = derived[2].appId
  /\ derived[1].data = derived[2].data
  /\ derived[1].keyNum # derived[2].keyNum
  /\ Len(derived[3].data) # Len(derived[1].data)

\* the application of a realm is on the card and its four key slots hold
\* pairwise different keys
SlotKeysDiffer(c, realm) ==
  LET app == c.apps[AppIdOf(realm)]
  IN /\ app.exists
     /\ \A i, j \in 1..4 : i # j => app.keys[i] # app.keys[j]

C20_OneSequenceAtATime ==
  Cardinality({t \in TaskIds : HoldsDevice(t)}) <= 1

\* Authenticate has returned an error to its caller
AuthFailed == mode = "devAuth" /\ pc = "a_ret" /\ IsErr(ret)

\* the failure was a card call that returned an error
CommunicationFailure ==
  /\ AuthFailed
  /\ failStep \in SeqRange(AuthSteps)
  /\ oplog[Len(oplog)].res = "err"

\* the failure was a read of another length than the fixed width, an
\* identifier file that holds no identifier, or a signature that does not
\* verify
IntegrityFailure == AuthFailed /\ ~CommunicationFailure

\* C21 (as stated): the reason reported for an integrity failure of
\* Authenticate is never the reason reported for a failed card call.
C21_FailureClassesDistinct ==
  IntegrityFailure
    => \A p \in SeqRange(AuthSteps) :
         VerifyReport(ret) # VerifyReport(AuthCardErrorReturn(p))

\* the calls on the master application that end a pass of Issue
PiccTail(secret, uidv) ==
  LET piccMasterKey ==
        DeriveDESFireKey(secret, NewDESFireAid(masterAppId), 0, uidv)
  IN <<OpSelectApplication(masterAppId),
       OpAuthenticate(0, defaultDESFireKey),
       OpChangeKeySettings(initialPICCSettings),
       OpChangeKey(0, piccMasterKey, defaultDESFireKey),
       OpAuthenticate(0, piccMasterKey),
       OpChangeKeySettings(finalPICCSettings),
       OpSetConfiguration>>

\* Issue has returned from a pass in which no step failed
IssueCompleted == IssueReturned /\ failStep = "" /\ ret = "nil"

PreviouslyIssued(c) == c.piccKey # defaultDESFireKey

\* C23 (as stated): on a previously issued card a pass of Issue is not
\* blocked at its authentication to the master application: the card
\* accepts the key Issue presents there.
C23_ReissueNotBlocked ==
  (mode = "devIssue" /\ pc \in {"r_authM", "p_auth"} /\ PreviouslyIssued(card))
    => CardAccepts(card, IssueOpFor(pc, systemSecret, IssueRealm, uid, sig))

\* what the card holds, apart from the session's selection and authentication
Persistent(c) == [c EXCEPT !.sel = masterAppId, !.auth = -1]

ReadOnlyCalls == {"SelectApplication", "Authenticate", "ReadData"}

\* C24: a step into or within Authenticate leaves what the card holds as it
\* was, and the calls Authenticate has made are SelectApplication,
\* Authenticate and ReadData only, whether it succeeds or fails.
C24_AuthenticateReadOnly ==
  [][mode' \in {"devAuth", "tagAuth"}
       => /\ Persistent(card') = Persistent(card)
          /\ \A k \in 1..Len(oplog') : oplog'[k].op.name \in ReadOnlyCalls]_vars

\* Authenticate has succeeded after its six calls
C24_Witness ==
  /\ mode = "devAuth"
  /\ pc = "a_ret"
  /\ ret = "nil"
  /\ Len(oplog) = Len(AuthSteps)

\* C25 (as stated): Decode of the two texts Encode gives for a generated
\* key pair returns the pair without error.
C25_EncodingRoundTrip ==
  sigCall.fn = "Decode"
    => \A k \in KeyIds :
         LET pair == GenerateKeyPair(k)
             enc == Encode(pair.priv, pair.pub)
         IN sigCall.in = <<enc.priv, enc.pub>>
              => sigCall.out = [err |-> "", priv |-> pair.priv, pub |-> pair.pub]

\* a text DecodePrivateKey must refuse: no block, or a block of another type
BadPrivateText(t) == ~t.block \/ t.Type # "EC PRIVATE KEY"
\* a text DecodePublicKey must refuse: no block, a block of another type, or
\* a key that is not an elliptic-curve key
BadPublicText(t) == ~t.block \/ t.Type # "PUBLIC KEY" \/ t.Bytes.alg # "ec"

\* C26: DecodePrivateKey and DecodePublicKey return an error and no key for
\* a text without a block, with a block of another type, or (public) with
\* a key that is no elliptic-curve key; Decode returns an error and neither
\* key when either half fails, and the private key's error when that fails.
C26_DecodeErrors ==
  sigCall.fn = "Decode"
    => LET privateKey == sigCall.in[1]
           publicKey == sigCall.in[2]
           a == DecodePrivateKey(privateKey)
           b == DecodePublicKey(publicKey)
       IN /\ BadPrivateText(privateKey) => (a.err # "" /\ a.key = NilKey)
          /\ BadPublicText(publicKey) => (b.err # "" /\ b.key = NilKey)
          /\ (a.err # "" \/ b.err # "")
               => /\ sigCall.out.err # ""
                  /\ sigCall.out.priv = NilKey
                  /\ sigCall.out.pub = NilKey
          /\ a.err # "" => sigCall.out.err = a.err

\* Decode was given a private key text that decodes and a PUBLIC KEY block
\* that holds an RSA key
C26_Witness ==
  /\ sigCall.fn = "Decode"
  /\ DecodePrivateKey(sigCall.in[1]).err = ""
  /\ sigCall.in[2] = RsaPublicPem
  /\ sigCall.out.err = "failed to parse PKIX block containing ECDSA public key"

\* C27 (as stated): Verify is false when S differs from the S that was
\* signed.
C27_AnyOtherSFails ==
  sigCall.fn = "Verify"
    => \A sg \in Signatures :
         (sigCall.in[3] = sg.r /\ sigCall.in[4] # sg.s) => ~sigCall.out

\* C27 (amended): Verify of what Sign returned is true under the public key
\* of the pair and the message signed, and so is Verify with the group
\* order minus S; Verify is false when the message or R differs, when S is
\* neither of the two, or under the other pair's public key; it returns a
\* truth value in every case.
C27_SignVerifyRoundTrip ==
  sigCall.fn = "Verify"
    => /\ sigCall.out \in BOOLEAN
       /\ \A k \in KeyIds, m \in SigMessages, n \in Nonces :
            LET pair == GenerateKeyPair(k)
                sg == Sign(pair.priv, m, n)
                pub == sigCall.in[1]
                data == sigCall.in[2]
                r == sigCall.in[3]
                s == sigCall.in[4]
            IN /\ (r = sg.r /\ s \in {sg.s, NegS(sg.s)})
                    => (sigCall.out <=> (pub = pair.pub /\ data = m))
               /\ (r = sg.r /\ s \notin {sg.s, NegS(sg.s)}) => ~sigCall.out
               /\ (s = sg.s /\ r # sg.r) => ~sigCall.out

\* Verify was given the message, the R and the S of a signature and the
\* public key of the pair, and returned true
C27_Witness ==
  /\ sigCall.fn = "Verify"
  /\ sigCall.out
  /\ \E sg \in Signatures : sigCall.in[3] = sg.r /\ sigCall.in[4] = sg.s
  /\ sigCall.in[2] \in SigMessages

\* the key that step 5 of a realm's provisioning puts in a slot: the new key
\* of the ChangeKey call Issue makes for that slot
StepFiveSteps == {"r_ck1", "r_ck2", "r_ck3"}
StepFiveKey(p, secret, realm) ==
  IssueOpFor(p, secret, realm, uid, sig).key

\* C28 (as stated): for every read secret a request can carry, the keys
\* that step 5 of a realm's provisioning puts in slots 1, 2 and 3 all
\* differ from the factory-default key, so none of the slots still holds
\* the default key after the step.
C28_NoDefaultKeyAfterStepFive ==
  mode = "devIssue" =>
    \A i \in 1..Len(realms) : \A p \in StepFiveSteps :
      StepFiveKey(p, systemSecret, realms[i]) # defaultDESFireKey

\* the 32 characters Issue writes to file 1 for an identifier
IssueWrites(id) ==
  IssueOpFor("r_w1", <<>>, [AssociationID |-> id], <<>>, NoSig).data

\* Authenticate has read and decoded the identifier file
IdentifierRead ==
  /\ mode = "devAuth"
  /\ \/ pc \in {"a_auth2", "a_readR", "a_readS"}
     \/ /\ pc = "a_ret"
        /\ \/ ret = "nil"
           \/ failStep \in {"a_auth2", "a_readR", "a_readS", "verify"}

\* the identifier file of the application Authenticate works on
IdentifierFile == card.apps[AppIdOf(realms[1])].files[1].data

\* the identifiers of the round trip: those of the realms, the nil
\* identifier and the one with every bit set
Identifiers == {UuidA, UuidB, NilUUID, [i \in 1..16 |-> 255]}

\* C29: when Authenticate is at the read of the identifier file, decoding
\* the 32 characters Issue writes gives, for every identifier, the
\* identifier back; and when Authenticate has read a file that holds them,
\* the identifier it decoded is that identifier, so the canonical string it
\* verifies, and the one it derives the auth key from, are the canonical
\* string Issue signed and derived from.
C29_IdentifierRoundTrip ==
  /\ (mode = "devAuth" /\ pc = "a_readId") =>
       \A id \in Identifiers :
         /\ Len(IssueWrites(id)) = mangledUUIDLength
         /\ ParseBytes(IssueWrites(id)) = [ok |-> TRUE, uuid |-> id]
  /\ IdentifierRead =>
       \A id \in Identifiers :
         IdentifierFile = IssueWrites(id) =>
           /\ tagUUID = id
           /\ UUIDString(tagUUID) = UUIDString(id)
           /\ AuthOpFor("a_auth2", realms[1], tagUUID).key.msg
                = IssueAppAuthKey(<<>>, [realms[1] EXCEPT !.AssociationID = id]).msg

\* Authenticate accepted a card whose identifier file holds what Issue
\* writes for the identifier of realm a
C29_Witness ==
  /\ IdentifierRead
  /\ pc = "a_ret"
  /\ ret = "nil"
  /\ IdentifierFile = IssueWrites(UuidA)
  /\ tagUUID = UuidA

\* the verify task has logged Success
VerifySucceeded ==
  mode = "verifyTask" /\ \E i \in 1..Len(log) : log[i] = Info("Success")

\* the realm the verify task is at was authenticated and matched
RealmVerified ==
  /\ pc = "a_ret"
  /\ ret = "nil"
  /\ IdentifierMatches(realms[idx], tagUUID)

Announced(t) ==
  creating[t].pc \in {"started", "sent"} \/ outputs[t].run # "none"

\* C31 (as stated): a task is in the store before its Run is started and
\* before the redirect naming it is sent; an entry of the store is never
\* removed or replaced; GetTask answers OK for an id whose redirect was
\* sent, and Not Found for a malformed or unknown id.
C31_RegistryLifecycle ==
  /\ [](\A t \in TaskIds : Announced(t) => InStore(t))
  /\ [][/\ \A t \in TaskIds : InStore(t) => taskStore'[t] = taskStore[t]
        /\ (Reading /\ reader.fn = "GetTask" /\ reader'.pc = "done") =>
             /\ (reader.id \in TaskIds /\ creating[reader.id].pc = "sent")
                  => reader'.status = StatusOK
             /\ reader.id \notin TaskIds => reader'.status = StatusNotFound
        /\ (reader' # reader /\ reader'.fn = "GetTask"
              /\ reader'.id = MalformedId)
             => (reader'.pc = "done" /\ reader'.status = StatusNotFound)]_vars

\* C36 (as stated): no insertion into the task store overlaps with another
\* insertion or with a read of the store.
C36_RegistryRaceFree ==
  /\ \A t \in TaskIds : creating[t].pc # "insertRaced"
  /\ reader.pc # "readRaced"

\* a log consumer is attached to a task and nothing has ended its loop
Streaming(t) == reader.pc = "stream" /\ reader.id = t

\* C37 (as stated): once Run has returned, a consumer attached to the
\* task's log that keeps draining observes the end of the stream: its
\* receive loop ends (unless a send failed or the process ended).
C37_LogStreamEnds ==
  \A t \in TaskIds :
    (outputs[t].run = "done" /\ Streaming(t))
      ~> (reader.pc \in {"ended", "done"} \/ Crashed)

\* C38 (as stated): a Run that was started returns in the end, whether or
\* not a consumer reads its log and whatever the number of bytes it logs.
C38_RunReturnsUnread ==
  \A t \in TaskIds :
    (outputs[t].run = "run") ~> (outputs[t].run = "done" \/ Crashed)

\* the key of a call whose MAC is fed the same bytes as one buffer
\* appId||keyNum||diversifier, and as two segments split inside the
\* diversifier
DeriveOneBuffer(secret, appId, keyNum, data) ==
  [kind |-> "mac", bytes |-> <<>>, secret |-> HmacKey(secret),
   msg |-> MacWrite(<<>>, <<appId[1], appId[2], appId[3]>>
                            \o <<keyNum % 256>> \o data)]
DeriveTwoSegments(secret, appId, keyNum, data) ==
  LET h == Len(data) \div 2
  IN [kind |-> "mac", bytes |-> <<>>, secret |-> HmacKey(secret),
      msg |-> MacWrite(MacWrite(<<>>, <<appId[1], appId[2], appId[3]>>
                                        \o <<keyNum % 256>> \o SubSeq(data, 1, h)),
                       SubSeq(data, h + 1, Len(data)))]

\* C32 (as stated): the key of a call differs from the key the same bytes
\* give when they are fed to the MAC as one concatenated buffer.
C32_FramingChangesKey ==
  \A i \in 1..Len(derived) :
    DeriveOneBuffer(derived[i].secret, NewDESFireAid(derived[i].appId),
                    derived[i].keyNum, derived[i].data) # derived[i].key

\* C32 (amended): the key of a call depends on the bytes fed to the MAC and
\* not on where the writes divide them: one write of appId||keyNum||
\* diversifier, or two segments split elsewhere, give the key of the call.
C32_FramingIrrelevant ==
  \A i \in 1..Len(derived) :
    LET c == derived[i] IN
    /\ DeriveOneBuffer(c.secret, NewDESFireAid(c.appId), c.keyNum, c.data) = c.key
    /\ DeriveTwoSegments(c.secret, NewDESFireAid(c.appId), c.keyNum, c.data) = c.key

\* a call was made with a diversifier of several bytes
C32_Witness == Len(derived) >= 1 /\ Len(derived[1].data) >= 2

\* the last poll of Connect met a tag of the given finding
LastFound(f) ==
  /\ mode \in {"connect0", "connect1"}
  /\ Len(oplog) >= 1
  /\ oplog[Len(oplog)].res = f

\* C33 (as stated): when a poll of Connect finds a tag that is not of the
\* supported kind, Connect ends there and returns an error that names the
\* unsupported tag; and Connect returns a target only from a poll that
\* found a tag of the supported kind.
C33_UnsupportedTagEndsDiscovery ==
  /\ (LastFound("other") \/ LastFound("ev0")) =>
       /\ pc = "returned"
       /\ ret = "err: tag not supported, must be DESFire EV1 or later"
  /\ (mode \in {"connect0", "connect1"} /\ ret = "target") =>
       LastFound("desfire")

\* the signature Issue writes for a realm, made with a nonce that gives
\* components of full width
RealmSignature(realm) ==
  Sign(realm.PrivateKey, UUIDString(realm.AssociationID), 2)

\* the card before the n-th call of a realm's provisioning, when the calls
\* before it were made on a blank card and had their effect
RECURSIVE RealmCardBefore(_, _, _)
RealmCardBefore(secret, realm, n) ==
  IF n = 1 THEN FreshCard
  ELSE CardAfter(RealmCardBefore(secret, realm, n - 1),
                 IssueOpFor(RealmSteps[n - 1], secret, realm, CardUid,
                            RealmSignature(realm)))

\* the calls of a realm's provisioning that write a file or its settings
IssueFileSteps == {"r_w1", "r_cfs1", "r_wR", "r_wS"}

\* the n-th call of a realm's provisioning is one the card accepts from the
\* key authenticated at that point
RealmCallPermitted(secret, realm, n) ==
  CardAccepts(RealmCardBefore(secret, realm, n),
              IssueOpFor(RealmSteps[n], secret, realm, CardUid,
                         RealmSignature(realm)))

\* the file a read of Authenticate is about
AuthReadFile(p) == IF p = "a_readId" THEN 1 ELSE 2

\* C34 (as stated): every WriteData and ChangeFileSettings of a realm's
\* provisioning is made while the key authenticated is one the access
\* rights of the file allow for it, and every ReadData of Authenticate is
\* made while the key authenticated is the one the rights of the file name
\* for reading.
C34_FileOperationsPermitted ==
  /\ mode = "devIssue" =>
       \A i \in 1..Len(realms) : \A n \in 1..Len(RealmSteps) :
         RealmSteps[n] \in IssueFileSteps
           => RealmCallPermitted(systemSecret, realms[i], n)
  /\ (mode = "devAuth" /\ pc \in {"a_readId", "a_readR", "a_readS"}) =>
       LET f == FileOf(card, AuthReadFile(pc)) IN
       f.exists => card.auth = AclRead(f.acl)

\* OpenNFCDevice of the task succeeded
DeviceOpened ==
  InTask /\ \E i \in 1..Len(log) : log[i] = Info("NFC reader opened")

\* C35 (as stated): a task whose OpenNFCDevice succeeded has called Close
\* exactly once when Run has returned, and makes no card call after a Close.
C35_DeviceReleasedOnce ==
  /\ []((DeviceOpened /\ pc = "done") => closeCalls = 1)
  /\ [][(InTask /\ closeCalls >= 1 /\ mode' = mode /\ passes' = passes)
          => oplog' = oplog]_vars

====
